---- MODULE Spec2Model ----
(***************************************************************************)
(* Document search of the BlackHole agent system.                          *)
(*                                                                         *)
(*   SearchAgent              src/agents/search/search_agent.js            *)
(*   search-simple function   src/netlify/functions/search-simple.js       *)
(*   connection status        src/netlify/functions/utils/                 *)
(*                                            mongodb_connection.js        *)
(*                                                                         *)
(* A JavaScript string is a sequence of one-character strings.  A          *)
(* JavaScript number is an IEEE 754 double, and its arithmetic is the      *)
(* correctly rounded arithmetic of doubles.                                *)
(***************************************************************************)
EXTENDS Integers, Sequences, FiniteSets, TLC

(***************************************************************************)
(* Strings                                                                 *)
(***************************************************************************)
Lower26 ==
  <<"a","b","c","d","e","f","g","h","i","j","k","l","m",
    "n","o","p","q","r","s","t","u","v","w","x","y","z">>

Upper26 ==
  <<"A","B","C","D","E","F","G","H","I","J","K","L","M",
    "N","O","P","Q","R","S","T","U","V","W","X","Y","Z">>

IsUpper(c) == \E i \in 1..26 : Upper26[i] = c

IsLower(c) == \E i \in 1..26 : Lower26[i] = c

IsDigit(c) == c \in {"0","1","2","3","4","5","6","7","8","9"}

\* \w of a JavaScript regular expression
IsWordChar(c) == IsUpper(c) \/ IsLower(c) \/ IsDigit(c) \/ c = "_"

\* \s of a JavaScript regular expression (the texts hold no tab or line break)
IsSpace(c) == c = " "

\* String.prototype.toLowerCase
toLowerCase(s) ==
  [i \in 1..Len(s) |->
     IF IsUpper(s[i]) THEN Lower26[CHOOSE j \in 1..26 : Upper26[j] = s[i]] ELSE s[i]]

\* String.prototype.includes
includes(s, sub) ==
  \E i \in 0..(Len(s) - Len(sub)) : SubSeq(s, i + 1, i + Len(sub)) = sub

\* Array.prototype.includes
arrayIncludes(arr, x) == \E i \in 1..Len(arr) : arr[i] = x

Min(S) == CHOOSE x \in S : \A y \in S : x <= y

Max(S) == CHOOSE x \in S : \A y \in S : x >= y

\* String.prototype.split on a pattern that matches a run of the characters of
\* separators (/\s+/, /[.!?]+/): the pieces between the runs, an empty piece
\* before a leading run and after a trailing one; starts: where the pieces
\* start, the first character and after every run; stop(p): the last character
\* of the piece that starts at p
split(s, separators) ==
  LET sep(i)  == s[i] \in separators
      starts  == {1} \cup {i + 1 : i \in {k \in 1..Len(s) : sep(k) /\ (k = Len(s) \/ ~sep(k + 1))}}
      stop(p) == LET next == {i \in p..Len(s) : sep(i)}
                 IN IF next = {} THEN Len(s) ELSE Min(next) - 1
      piece(n) == LET p == CHOOSE x \in starts : Cardinality({y \in starts : y < x}) = n - 1
                  IN SubSeq(s, p, stop(p))
  IN [n \in 1..Cardinality(starts) |-> piece(n)]

\* String.prototype.trim: from the first to the last character that is not
\* white space
trim(s) ==
  LET inner == {i \in 1..Len(s) : ~IsSpace(s[i])}
  IN IF inner = {} THEN <<>> ELSE SubSeq(s, Min(inner), Max(inner))

\* Array.prototype.slice(0, n) and String.prototype.substring(0, n)
slice0(arr, n) == SubSeq(arr, 1, IF Len(arr) < n THEN Len(arr) ELSE n)

(***************************************************************************)
(* Numbers.  A JavaScript Number is an IEEE 754 double: a sign and a       *)
(* 53-bit significand m with value sign * m * 2^e, a zero, or NaN.  The     *)
(* significand is a natural of any size, written as a little-endian        *)
(* sequence of limbs below LimbBase with no leading zero limb, so that     *)
(* every operation is computed exactly and then rounded to nearest, ties   *)
(* to even.  Infinities, subnormals and the sign of zero do not occur in   *)
(* the program's arithmetic and are left out.                              *)
(***************************************************************************)
LimbBits == 15

LimbBase == 2^LimbBits

SignificandBits == 53

RECURSIVE bnTrim(_)
bnTrim(a) == IF a # <<>> /\ a[Len(a)] = 0 THEN bnTrim(SubSeq(a, 1, Len(a) - 1)) ELSE a

RECURSIVE bnFromInt(_)
bnFromInt(n) == IF n = 0 THEN <<>> ELSE <<n % LimbBase>> \o bnFromInt(n \div LimbBase)

RECURSIVE bnToInt(_)
bnToInt(a) == IF a = <<>> THEN 0 ELSE a[1] + LimbBase * bnToInt(Tail(a))

limb(a, i) == IF i <= Len(a) THEN a[i] ELSE 0

\* -1, 0 or 1 as a is below, equal to or above b
bnCmp(a, b) ==
  IF Len(a) # Len(b) THEN (IF Len(a) > Len(b) THEN 1 ELSE -1)
  ELSE LET differ == {i \in 1..Len(a) : a[i] # b[i]}
       IN IF differ = {} THEN 0
          ELSE LET i == CHOOSE j \in differ : \A k \in differ : k <= j
               IN IF a[i] > b[i] THEN 1 ELSE -1

RECURSIVE bnAddFrom(_, _, _, _, _)
bnAddFrom(a, b, i, carry, acc) ==
  IF i > Len(a) /\ i > Len(b)
  THEN (IF carry = 0 THEN acc ELSE Append(acc, carry))
  ELSE LET s == limb(a, i) + limb(b, i) + carry
       IN bnAddFrom(a, b, i + 1, s \div LimbBase, Append(acc, s % LimbBase))

bnAdd(a, b) == bnAddFrom(a, b, 1, 0, <<>>)

\* a - b for a >= b
RECURSIVE bnSubFrom(_, _, _, _, _)
bnSubFrom(a, b, i, borrow, acc) ==
  IF i > Len(a) THEN bnTrim(acc)
  ELSE LET s == a[i] - limb(b, i) - borrow
       IN bnSubFrom(a, b, i + 1, IF s < 0 THEN 1 ELSE 0,
                    Append(acc, IF s < 0 THEN s + LimbBase ELSE s))

bnSub(a, b) == bnSubFrom(a, b, 1, 0, <<>>)

\* a * k for 0 <= k < LimbBase
RECURSIVE bnMulSmallFrom(_, _, _, _, _)
bnMulSmallFrom(a, k, i, carry, acc) ==
  IF i > Len(a) THEN bnTrim(IF carry = 0 THEN acc ELSE Append(acc, carry))
  ELSE LET p == a[i] * k + carry
       IN bnMulSmallFrom(a, k, i + 1, p \div LimbBase, Append(acc, p % LimbBase))

bnMulSmall(a, k) == bnMulSmallFrom(a, k, 1, 0, <<>>)

\* a * LimbBase^n
bnShiftLimbs(a, n) == IF a = <<>> THEN <<>> ELSE [i \in 1..n |-> 0] \o a

RECURSIVE bnMulFrom(_, _, _, _)
bnMulFrom(a, b, j, acc) ==
  IF j > Len(b) THEN acc
  ELSE bnMulFrom(a, b, j + 1, bnAdd(acc, bnShiftLimbs(bnMulSmall(a, b[j]), j - 1)))

bnMul(a, b) == bnMulFrom(a, b, 1, <<>>)

\* a * 2^n
bnShl(a, n) == bnShiftLimbs(bnMulSmall(a, 2^(n % LimbBits)), n \div LimbBits)

\* floor(a / 2^n)
bnShr(a, n) ==
  LET q    == n \div LimbBits
      r    == n % LimbBits
      rest == IF q >= Len(a) THEN <<>> ELSE SubSeq(a, q + 1, Len(a))
  IN bnTrim([i \in 1..Len(rest) |->
               (rest[i] \div 2^r) + (limb(rest, i + 1) % 2^r) * 2^(LimbBits - r)])

RECURSIVE bitLength(_)
bitLength(n) == IF n = 0 THEN 0 ELSE 1 + bitLength(n \div 2)

bnBitLength(a) == IF a = <<>> THEN 0 ELSE LimbBits * (Len(a) - 1) + bitLength(a[Len(a)])

\* n steps of long division by b from qr = <<quotient, remainder>>, by halves
\* of the steps: <<floor((q * b + r) * 2^n / b), (r * 2^n) mod b>>
RECURSIVE bnDivSteps(_, _, _)
bnDivSteps(b, n, qr) ==
  IF n = 0 THEN qr
  ELSE IF n = 1
  THEN LET r2 == bnMulSmall(qr[2], 2)
       IN IF bnCmp(r2, b) >= 0 THEN <<bnAdd(bnMulSmall(qr[1], 2), <<1>>), bnSub(r2, b)>>
          ELSE <<bnMulSmall(qr[1], 2), r2>>
  ELSE LET first == bnDivSteps(b, n \div 2, qr)
       \* the first half is worked out before the second is entered
       IN IF Len(first) = 2 THEN bnDivSteps(b, n - (n \div 2), first) ELSE first

\* <<floor(a * 2^n / b), (a * 2^n) mod b>> for a < 2 * b
bnDivMod(a, b, n) ==
  bnDivSteps(b, n, IF bnCmp(a, b) >= 0 THEN <<<<1>>, bnSub(a, b)>> ELSE <<(<<>>), a>>)

\* the bits hi down to lo of floor(sqrt(a)), added to the higher bits r, by
\* halves of the bits
RECURSIVE bnSqrtBits(_, _, _, _)
bnSqrtBits(a, hi, lo, r) ==
  IF hi < lo THEN r
  ELSE IF hi = lo
  THEN LET t == bnAdd(r, bnShl(<<1>>, hi))
       IN IF bnCmp(bnMul(t, t), a) <= 0 THEN t ELSE r
  ELSE LET mid == (hi + lo + 1) \div 2
           high == bnSqrtBits(a, hi, mid, r)
       \* the higher bits are worked out before the lower ones are entered
       IN IF bnCmp(high, r) >= 0 THEN bnSqrtBits(a, mid - 1, lo, high) ELSE high

\* floor(sqrt(a))
bnSqrt(a) == bnSqrtBits(a, bnBitLength(a) \div 2, 0, <<>>)

NaN == [nan |-> TRUE, sign |-> 1, m |-> <<>>, e |-> 0]

Zero == [nan |-> FALSE, sign |-> 1, m |-> <<>>, e |-> 0]

\* the double nearest to sign * M * 2^e, ties to the even significand.
\* roundHalfEven: q, or q + 1 when the dropped bits rem are above the half, or
\* are the half and q is odd; normalised: the double of a significand of at
\* most SignificandBits + 1 bits; roundDropped: M of more than SignificandBits
\* bits without its sh lowest bits, q
roundToDouble(sign, M, e) ==
  LET roundHalfEven(q, rem, half) ==
        IF bnCmp(rem, half) > 0 \/ (rem = half /\ q # <<>> /\ q[1] % 2 = 1)
        THEN bnAdd(q, <<1>>) ELSE q
      normalised(q, ex) ==
        IF bnBitLength(q) > SignificandBits
        THEN [nan |-> FALSE, sign |-> sign, m |-> bnShr(q, 1), e |-> ex + 1]
        ELSE [nan |-> FALSE, sign |-> sign, m |-> q, e |-> ex]
      roundDropped(sh, q) ==
        normalised(roundHalfEven(q, bnSub(M, bnShl(q, sh)), bnShl(<<1>>, sh - 1)), e + sh)
      roundBits(len) ==
        IF len = 0 THEN Zero
        ELSE IF len <= SignificandBits
        THEN [nan |-> FALSE, sign |-> sign, m |-> bnShl(M, SignificandBits - len),
              e |-> e - (SignificandBits - len)]
        ELSE roundDropped(len - SignificandBits, bnShr(M, len - SignificandBits))
  IN roundBits(bnBitLength(M))

\* the Number of an integer literal
number(n) == roundToDouble(IF n < 0 THEN -1 ELSE 1, bnFromInt(IF n < 0 THEN 0 - n ELSE n), 0)

\* x * y
numMul(x, y) ==
  IF x.nan \/ y.nan THEN NaN
  ELSE roundToDouble(x.sign * y.sign, bnMul(x.m, y.m), x.e + y.e)

\* x / y; the program divides by zero only in 0 / 0.  markedQuotient: twice
\* the quotient of qr = <<quotient, remainder>>, with a last bit that tells a
\* quotient with a remainder from an exact one
numDiv(x, y) ==
  LET markedQuotient(qr) ==
        bnAdd(bnMulSmall(qr[1], 2), IF qr[2] = <<>> THEN <<>> ELSE <<1>>)
  IN CASE x.nan \/ y.nan -> NaN
       [] ~x.nan /\ ~y.nan /\ y.m = <<>> /\ x.m = <<>> -> NaN
       [] ~x.nan /\ ~y.nan /\ y.m # <<>> ->
            roundToDouble(x.sign * y.sign,
                          markedQuotient(bnDivMod(x.m, y.m, SignificandBits + 2)),
                          x.e - y.e - (SignificandBits + 2) - 1)

\* x + y; numbers that are not zero are added at the lesser exponent e;
\* addAligned: sx * a + sy * b, times 2^e
numAdd(x, y) ==
  IF x.nan \/ y.nan THEN NaN
  ELSE IF x.m = <<>> THEN y
  ELSE IF y.m = <<>> THEN x
  ELSE LET e == IF x.e < y.e THEN x.e ELSE y.e
           addAligned(sx, a, sy, b) ==
             IF sx = sy THEN roundToDouble(sx, bnAdd(a, b), e)
             ELSE roundToDouble(IF bnCmp(a, b) >= 0 THEN sx ELSE sy,
                                IF bnCmp(a, b) >= 0 THEN bnSub(a, b) ELSE bnSub(b, a), e)
       IN addAligned(x.sign, bnShl(x.m, x.e - e), y.sign, bnShl(y.m, y.e - e))

\* x - y
numSub(x, y) ==
  numAdd(x, IF y.nan \/ y.m = <<>> THEN y ELSE [y EXCEPT !.sign = 0 - y.sign])

\* Math.sqrt(x) for x >= 0: the root of x.m * 2^k * 2^(x.e - k), x.e - k even.
\* markedRoot: twice the root, with a last bit that tells an inexact root from
\* an exact one; sqrtOf: the root of square * 2^e for an even e
MathSqrt(x) ==
  IF x.nan THEN NaN
  ELSE IF x.m = <<>> THEN Zero
  ELSE LET k == IF (x.e - (SignificandBits + 1)) % 2 = 0
                THEN SignificandBits + 1 ELSE SignificandBits + 2
           markedRoot(square, root) ==
             bnAdd(bnMulSmall(root, 2), IF bnMul(root, root) = square THEN <<>> ELSE <<1>>)
           sqrtOf(square, e) ==
             roundToDouble(1, markedRoot(square, bnSqrt(square)), (e \div 2) - 1)
       IN sqrtOf(bnShl(x.m, k), x.e - k)

\* -1, 0 or 1 as x is below, equal to or above y, for numbers that are not NaN
numCmp(x, y) ==
  IF x.m = <<>> /\ y.m = <<>> THEN 0
  ELSE IF x.m = <<>> THEN 0 - y.sign
  ELSE IF y.m = <<>> THEN x.sign
  ELSE IF x.sign # y.sign THEN x.sign
  ELSE IF x.e # y.e THEN (IF x.e > y.e THEN x.sign ELSE 0 - x.sign)
  ELSE x.sign * bnCmp(x.m, y.m)

\* x > y; false when either is NaN
Greater(x, y) == ~x.nan /\ ~y.nan /\ numCmp(x, y) > 0

\* x >= y; false when either is NaN
GreaterEq(x, y) == ~x.nan /\ ~y.nan /\ numCmp(x, y) >= 0

\* Math.min(x, y)
MathMin(x, y) == IF x.nan \/ y.nan THEN NaN ELSE IF Greater(x, y) THEN y ELSE x

\* Math.round(x) as an integer: floor(x + 1/2), from 2 * |x| and 1, both
\* times 2^sh.  roundHalfUp: floor((twice + unit) / 2^(sh + 1)) for
\* sign * twice, the integer nearest to sign * twice / 2^(sh + 1), ties upwards
MathRound(x) ==
  LET roundHalfUp(sign, twice, unit, sh) ==
        IF sign = 1 THEN bnToInt(bnShr(bnAdd(twice, unit), sh + 1))
        ELSE IF bnCmp(twice, unit) <= 0 THEN 0
        ELSE 0 - (bnToInt(bnShr(bnSub(twice, unit), sh + 1))
                  + (IF bnShl(bnShr(bnSub(twice, unit), sh + 1), sh + 1) = bnSub(twice, unit)
                     THEN 0 ELSE 1))
  IN IF x.m = <<>> THEN 0
     ELSE IF x.e + 1 >= 0 THEN roundHalfUp(x.sign, bnShl(x.m, x.e + 1), <<1>>, 0)
     ELSE roundHalfUp(x.sign, x.m, bnShl(<<1>>, 0 - (x.e + 1)), 0 - (x.e + 1))

\* the Number of the decimal literal n / d: the double nearest to it
decimal(n, d) == numDiv(number(n), number(d))

\* Array.prototype.sort((a, b) => b.score - a.score) of entries whose scores
\* are not NaN: descending, stable (equal scores keep their order)
sortByScore(arr) ==
  LET RECURSIVE insertByScore(_, _)
      insertByScore(sorted, x) ==
        IF sorted = <<>> THEN <<x>>
        ELSE IF Greater(x.score, Head(sorted).score) THEN <<x>> \o sorted
             ELSE <<Head(sorted)>> \o insertByScore(Tail(sorted), x)
      RECURSIVE sortByScoreFrom(_, _)
      sortByScoreFrom(rest, acc) ==
        IF rest = <<>> THEN acc
        ELSE sortByScoreFrom(Tail(rest), insertByScore(acc, Head(rest)))
  IN sortByScoreFrom(arr, <<>>)
(***************************************************************************)
(* SearchAgent.processQuery                                                *)
(***************************************************************************)
\* the end of the run of lower-case letters that starts at i (i - 1: none)
RECURSIVE lowerRunEnd(_, _)
lowerRunEnd(s, i) ==
  IF i <= Len(s) /\ IsLower(s[i]) THEN lowerRunEnd(s, i + 1) ELSE i - 1

\* [A-Z][a-z]+ at i: where it ends, 0 when it does not match
capWordEnd(s, i) ==
  IF i <= Len(s) /\ IsUpper(s[i]) /\ lowerRunEnd(s, i + 1) >= i + 1
  THEN lowerRunEnd(s, i + 1) ELSE 0

\* \b before position i, whose character is a word character
boundaryBefore(s, i) == i = 1 \/ ~IsWordChar(s[i - 1])

\* \b after position k, whose character is a word character
boundaryAfter(s, k) == k = Len(s) \/ ~IsWordChar(s[k + 1])

\* query.match(pattern) of a pattern without the g flag: <<>> for null, else the
\* first match followed by its capture groups
\* /\b\d{4}-\d{2}-\d{2}\b/; dateEnd(i): where a match at i ends, 0 for none
matchDate(s) ==
  LET dateEnd(i) ==
        IF /\ i + 9 <= Len(s)
           /\ \A k \in {0, 1, 2, 3, 5, 6, 8, 9} : IsDigit(s[i + k])
           /\ s[i + 4] = "-" /\ s[i + 7] = "-"
           /\ boundaryBefore(s, i) /\ boundaryAfter(s, i + 9)
        THEN i + 9 ELSE 0
      at == {i \in 1..Len(s) : dateEnd(i) > 0}
  IN IF at = {} THEN <<>> ELSE <<SubSeq(s, Min(at), dateEnd(Min(at)))>>

\* /\b[A-Z][a-z]+ [A-Z][a-z]+\b/; personEnd(i): where a match at i ends
matchPerson(s) ==
  LET personEnd(i) ==
        LET j == capWordEnd(s, i)
            k == IF j > 0 /\ j + 1 <= Len(s) /\ s[j + 1] = " " THEN capWordEnd(s, j + 2) ELSE 0
        IN IF boundaryBefore(s, i) /\ k > 0 /\ boundaryAfter(s, k) THEN k ELSE 0
      at == {i \in 1..Len(s) : personEnd(i) > 0}
  IN IF at = {} THEN <<>> ELSE <<SubSeq(s, Min(at), personEnd(Min(at)))>>

\* /\b[A-Z][a-z]+ (Inc|Corp|LLC|Ltd)\b/; suffixesAt(i): the alternatives of
\* (Inc|Corp|LLC|Ltd)\b that match at i, in the pattern's order;
\* organizationAt(i): <<>> or <<the text matched, the group>>
matchOrganization(s) ==
  LET suffixesAt(i) ==
        SelectSeq(<< <<"I","n","c">>, <<"C","o","r","p">>, <<"L","L","C">>, <<"L","t","d">> >>,
                  LAMBDA x : /\ i + Len(x) - 1 <= Len(s)
                             /\ SubSeq(s, i, i + Len(x) - 1) = x
                             /\ boundaryAfter(s, i + Len(x) - 1))
      organizationAt(i) ==
        LET j == capWordEnd(s, i)
            sfx == IF j > 0 /\ j + 1 <= Len(s) /\ s[j + 1] = " " THEN suffixesAt(j + 2) ELSE <<>>
        IN IF boundaryBefore(s, i) /\ sfx # <<>>
           THEN <<SubSeq(s, i, j + 1 + Len(sfx[1])), sfx[1]>>
           ELSE <<>>
      at == {i \in 1..Len(s) : organizationAt(i) # <<>>}
  IN IF at = {} THEN <<>> ELSE organizationAt(Min(at))

\* every element of the array match returns becomes an entity
extractEntities(query) ==
  LET entities(matches, type) ==
        [i \in 1..Len(matches) |-> [text |-> matches[i], type |-> type]]
  IN entities(matchDate(query), "DATE")
     \o entities(matchPerson(query), "PERSON")
     \o entities(matchOrganization(query), "ORGANIZATION")

\* an intent decided by the trigger that occurs first in the query
determineIntentByPosition(query) ==
  LET n == toLowerCase(query)
      triggers == << <<"h","o","w">>, <<"w","h","a","t">>, <<"w","h","e","n">>, <<"w","h","e","r","e">> >>
      intents == <<"HOW_TO", "DEFINITION", "TIME", "LOCATION">>
      at(k) == {i \in 1..Len(n) : i + Len(triggers[k]) - 1 <= Len(n)
                                   /\ SubSeq(n, i, i + Len(triggers[k]) - 1) = triggers[k]}
      found == {k \in 1..4 : at(k) # {}}
  IN IF found = {} THEN "INFORMATION"
     ELSE intents[CHOOSE k \in found : \A j \in found : Min(at(k)) <= Min(at(j))]

determineIntent(query) ==
  IF includes(toLowerCase(query), <<"h","o","w">>) THEN "HOW_TO"
  ELSE IF includes(toLowerCase(query), <<"w","h","a","t">>) THEN "DEFINITION"
  ELSE IF includes(toLowerCase(query), <<"w","h","e","n">>) THEN "TIME"
  ELSE IF includes(toLowerCase(query), <<"w","h","e","r","e">>) THEN "LOCATION"
  ELSE "INFORMATION"

\* processQuery once vectorizer.encode(query) has returned vector (<<>>: no
\* vectorizer, the vector is null); stripped is
\* query.toLowerCase().replace(/[^\w\s]/g, '')
processQuery(query, vector) ==
  [original   |-> query,
   normalized |-> toLowerCase(query),
   keywords   |-> LET stripped == SelectSeq(toLowerCase(query),
                                            LAMBDA c : IsWordChar(c) \/ IsSpace(c))
                  IN SelectSeq(split(stripped, {" "}), LAMBDA word : Len(word) > 2),
   entities   |-> extractEntities(query),
   intent     |-> determineIntent(query),
   vector     |-> vector]


(***************************************************************************)
(* Documents of the agent_results collection.  A document is               *)
(*   [_id, agent, text, summary, filename, entities, created_at,           *)
(*    vector_embedding]                                                    *)
(* text is output.extracted_text, summary is output.analysis.summary,      *)
(* filename is input.file.name, entities are the texts of                  *)
(* output.analysis.entities.  A missing string, a missing entity list and  *)
(* a missing vector_embedding are <<>>.                                    *)
(***************************************************************************)
PDFAgent == <<"P","D","F","E","x","t","r","a","c","t","o","r","A","g","e","n","t">>

OCRAgent == <<"I","m","a","g","e","O","C","R","A","g","e","n","t">>

\* vectorizer.encode: a vector of a fixed length, here the counts of the
\* letters e and n in the lower-cased text
Encode(text) ==
  LET countChar(s, c) == Cardinality({i \in 1..Len(s) : s[i] = c})
  IN <<countChar(toLowerCase(text), "e"), countChar(toLowerCase(text), "n")>>

\* the documents the document handler may store, in the order of their
\* creation
DocPool ==
  << [_id |-> 1, agent |-> PDFAgent,
      text |-> <<"L","e","a","r","n","i","n","g"," ","b","y"," ","m","a","c","h","i","n","e","?"," ","F","u","n",","," ","f","u","n",".">>,
      summary |-> <<>>, filename |-> <<"b",".","p","d","f">>,
      entities |-> <<>>,
      created_at |-> 1, vector_embedding |-> <<>>],
     [_id |-> 2, agent |-> OCRAgent,
      text |-> <<"C","o","o","k","i","n","g"," ","p","a","s","t","a"," ","i","s"," ","f","u","n">>,
      summary |-> <<"A"," ","r","e","c","i","p","e">>, filename |-> <<"a",".","p","n","g">>,
      entities |-> <<>>,
      created_at |-> 2, vector_embedding |-> <<1, -2>>],
     [_id |-> 3, agent |-> PDFAgent,
      text |-> <<"M","a","c","h","i","n","e"," ","l","e","a","r","n","i","n","g"," ","i","s"," ","f","u","n","."," ","I","t"," ","e","n","a","b","l","e","s"," ","a","u","t","o","m","a","t","i","o","n","!">>,
      summary |-> <<>>, filename |-> <<"m","l",".","p","d","f">>,
      entities |-> << <<"m","a","c","h","i","n","e"," ","l","e","a","r","n","i","n","g">> >>,
      created_at |-> 3, vector_embedding |-> <<>>],
     [_id |-> 4, agent |-> OCRAgent,
      text |-> <<>>,
      summary |-> <<"f","u","n"," ","s","c","a","n">>, filename |-> <<"c",".","p","n","g">>,
      entities |-> <<>>,
      created_at |-> 4, vector_embedding |-> <<3, 1>>] >>

\* the queries of the requests: empty, without a token longer than two
\* characters, with an entity, with a keyword that several documents hold
Queries ==
  { <<>>,
    <<"i","s">>,
    <<"M","a","c","h","i","n","e"," ","L","e","a","r","n","i","n","g">>,
    <<"f","u","n">> }

NoFilters == [agent |-> <<>>, dateRange |-> <<>>]

\* the requests to the SearchAgent: every query without filters, and the
\* queries that documents match with each of input.filters: none, an agent
\* label, a date range with both bounds, a date range with its start only; a
\* filter that is not given is <<>>, a bound that is given is <<t>>
AgentRequests ==
  {[query |-> q, filters |-> NoFilters] : q \in Queries}
  \cup {[query |-> q, filters |-> f] :
          q \in Queries \ {<<>>, <<"i","s">>},
          f \in { NoFilters,
                  [agent |-> PDFAgent, dateRange |-> <<>>],
                  [agent |-> <<>>, dateRange |-> [start |-> <<2>>, end |-> <<3>>]],
                  [agent |-> <<>>, dateRange |-> [start |-> <<2>>, end |-> <<>>]] }}

(***************************************************************************)
(* The store's answers.  collection.find(query).limit(n).toArray() returns  *)
(* the matching documents in the collection's order, at most n.            *)
(***************************************************************************)
\* { field: { $regex: pattern, $options: 'i' } } for a pattern of literal
\* characters that may end with the quantifier + and its possessive mark
\* (c+, c++): the field holds the literal characters, whatever the case
regexMatch(field, pattern) ==
  LET literal == SelectSeq(pattern, LAMBDA c : c # "+")
  IN field # <<>> /\ includes(toLowerCase(field), toLowerCase(literal))

\* the agent and created_at conditions of a query: when dateRange is given,
\* both $gte: new Date(start) and $lte: new Date(end).  newDate: the time the
\* store compares with; new Date(undefined) is an Invalid Date, which is
\* written to the store as time 0, before the creation of every document
matchesFilters(doc, filters) ==
  LET newDate(value) == IF value = <<>> THEN 0 ELSE value[1]
  IN /\ filters.agent # <<>> => doc.agent = filters.agent
     /\ filters.dateRange # <<>> =>
          /\ doc.created_at >= newDate(filters.dateRange.start)
          /\ doc.created_at <= newDate(filters.dateRange.end)

\* the $or of performTextSearch; wholeWordMatch: new RegExp(`\\b${k}\\b`, 'i')
\* tested on the field
matchesTextQuery(doc, pq) ==
  LET wholeWordMatch(field, k) ==
        \E i \in 1..(Len(field) - Len(k) + 1) :
          /\ toLowerCase(SubSeq(field, i, i + Len(k) - 1)) = k
          /\ boundaryBefore(field, i)
          /\ boundaryAfter(field, i + Len(k) - 1)
  IN \/ regexMatch(doc.text, pq.normalized)
     \/ \E i \in 1..Len(pq.keywords) : wholeWordMatch(doc.text, pq.keywords[i])


(***************************************************************************)
(* SearchAgent: scoring                                                    *)
(***************************************************************************)
MaxResultsDefault == 10

\* the literals of the program
One == number(1)

Half == decimal(5, 10)

TwoTenths == decimal(2, 10)

OneTenth == decimal(1, 10)

\* the constructor's minScore when the option is not given
MinScoreDefault == Half

\* the score without its entity term
calculateTextScoreWithoutEntities(result, pq) ==
  LET text == toLowerCase(result.text)
      exact == IF result.text # <<>> /\ includes(text, pq.normalized)
               THEN numAdd(Zero, Half) ELSE Zero
      matchedKeywords == SelectSeq(pq.keywords, LAMBDA k : includes(text, k))
  IN MathMin(One,
             IF result.text # <<>>
             THEN numAdd(exact, numMul(numDiv(number(Len(matchedKeywords)),
                                              number(Len(pq.keywords))),
                                       decimal(3, 10)))
             ELSE exact)

calculateTextScore(result, pq) ==
  LET hasText  == result.text # <<>>
      text     == toLowerCase(result.text)
      exact    == IF hasText /\ includes(text, pq.normalized) THEN numAdd(Zero, Half) ELSE Zero
      matchedKeywords == SelectSeq(pq.keywords, LAMBDA k : includes(text, k))
      withKeywords ==
        IF hasText
        THEN numAdd(exact, numMul(numDiv(number(Len(matchedKeywords)), number(Len(pq.keywords))),
                                  decimal(3, 10)))
        ELSE exact
      resultEntities  == [i \in 1..Len(result.entities) |-> toLowerCase(result.entities[i])]
      matchedEntities == SelectSeq(pq.entities,
                                LAMBDA e : arrayIncludes(resultEntities, toLowerCase(e.text)))
      score ==
        IF Len(pq.entities) > 0
        THEN numAdd(withKeywords,
                    numMul(numDiv(number(Len(matchedEntities)), number(Len(pq.entities))),
                           TwoTenths))
        ELSE withKeywords
  IN MathMin(One, score)

\* the sum of the products of the components; the components are small
\* integers, so that no sum or product is rounded
dot(a, b) ==
  LET RECURSIVE sum(_)
      sum(i) == IF i = 0 THEN 0 ELSE a[i] * b[i] + sum(i - 1)
  IN sum(Len(a))

\* the quotient without the test of the magnitudes
calculateCosineSimilarityUnguarded(vec1, vec2) ==
  IF vec1 = <<>> \/ vec2 = <<>> \/ Len(vec1) # Len(vec2) THEN Zero
  ELSE numDiv(number(dot(vec1, vec2)),
              numMul(MathSqrt(number(dot(vec1, vec1))), MathSqrt(number(dot(vec2, vec2)))))

calculateCosineSimilarity(vec1, vec2) ==
  IF vec1 = <<>> \/ vec2 = <<>> \/ Len(vec1) # Len(vec2) THEN Zero
  ELSE LET dotProduct == number(dot(vec1, vec2))
           mag1 == MathSqrt(number(dot(vec1, vec1)))
           mag2 == MathSqrt(number(dot(vec2, vec2)))
       IN IF mag1 = Zero \/ mag2 = Zero THEN Zero
          ELSE numDiv(dotProduct, numMul(mag1, mag2))

\* a candidate: the document's fields and its score
scored(doc, score) ==
  [_id |-> doc._id, agent |-> doc.agent, text |-> doc.text, created_at |-> doc.created_at,
   score |-> score]

(***************************************************************************)
(* SearchAgent: snippets, ranking, summary                                 *)
(***************************************************************************)
MaxSnippets == 3

\* score += 0.1 for each of n keywords
RECURSIVE addTenths(_, _)
addTenths(score, n) == IF n = 0 THEN score ELSE addTenths(numAdd(score, OneTenth), n - 1)

\* the score of a sentence: 0.5 for the whole query, 0.1 for each keyword
sentenceScore(sentence, pq) ==
  addTenths(IF includes(toLowerCase(sentence), pq.normalized)
            THEN numAdd(Zero, Half) ELSE Zero,
            Len(SelectSeq(pq.keywords, LAMBDA kw : includes(toLowerCase(sentence), kw))))

\* the scored sentences in the order of the text, all of them
extractRelevantSnippetsUnsorted(result, pq) ==
  LET sentences == SelectSeq(split(result.text, {".", "!", "?"}), LAMBDA s : Len(trim(s)) > 0)
  IN SelectSeq([i \in 1..Len(sentences) |->
                  [text |-> trim(sentences[i]), score |-> sentenceScore(sentences[i], pq)]],
               LAMBDA s : Greater(s.score, Zero))

extractRelevantSnippets(result, pq) ==
  LET scoredSentences(sentences) ==
        [i \in 1..Len(sentences) |->
           [text |-> trim(sentences[i]), score |-> sentenceScore(sentences[i], pq)]]
      sentences == SelectSeq(split(result.text, {".", "!", "?"}), LAMBDA s : Len(trim(s)) > 0)
      snippets  == SelectSeq(scoredSentences(sentences), LAMBDA s : Greater(s.score, Zero))
  IN slice0(sortByScore(snippets), MaxSnippets)

\* the results with their snippets
withSnippets(results, pq) ==
  [i \in 1..Len(results) |->
     [id |-> results[i]._id, agent |-> results[i].agent, score |-> results[i].score,
      snippets |-> extractRelevantSnippets(results[i], pq),
      created_at |-> results[i].created_at]]

\* the ranking without its sort
rankResultsUnsorted(results, pq, minScore) ==
  withSnippets(SelectSeq(results, LAMBDA r : GreaterEq(r.score, minScore)), pq)

\* a ranking whose sort puts the later of two equal scores first
rankResultsUnstable(results, pq, minScore) ==
  LET filteredResults == SelectSeq(results, LAMBDA r : GreaterEq(r.score, minScore))
      reversed == [i \in 1..Len(filteredResults) |->
                     filteredResults[Len(filteredResults) + 1 - i]]
  IN withSnippets(sortByScore(reversed), pq)

rankResults(results, pq, minScore) ==
  LET filteredResults == SelectSeq(results, LAMBDA r : GreaterEq(r.score, minScore))
      sortedResults   == sortByScore(filteredResults)
  IN withSnippets(sortedResults, pq)

\* Number.prototype.toString of an integer
toString(n) ==
  LET RECURSIVE digitsOf(_)
      digitsOf(k) ==
        LET d == <<"0","1","2","3","4","5","6","7","8","9">>[(k % 10) + 1]
        IN IF k < 10 THEN <<d>> ELSE Append(digitsOf(k \div 10), d)
  IN IF n < 0 THEN <<"-">> \o digitsOf(0 - n) ELSE digitsOf(n)

NoResultsText == <<"N","o"," ","r","e","s","u","l","t","s"," ","f","o","u","n","d"," ","f","o","r"," ","q","u","e","r","y",":"," ","\"">>

\* distinctAgents: the agent labels of the results, each once, in the order of
\* first occurrence (the keys of agentCounts); countAgent: agentCounts[agent]
generateSummary(results, pq) ==
  IF Len(results) = 0
  THEN NoResultsText \o pq.original \o <<"\"">>
  ELSE LET RECURSIVE distinctAgents(_, _)
           distinctAgents(rest, acc) ==
             IF rest = <<>> THEN acc
             ELSE distinctAgents(Tail(rest),
                                 IF arrayIncludes(acc, Head(rest).agent) THEN acc
                                 ELSE Append(acc, Head(rest).agent))
           countAgent(agent) == Len(SelectSeq(results, LAMBDA r : r.agent = agent))
           RECURSIVE concat(_)
           concat(parts) == IF parts = <<>> THEN <<>> ELSE Head(parts) \o concat(Tail(parts))
           agents == distinctAgents(results, <<>>)
           header == <<"F","o","u","n","d"," ">> \o toString(Len(results))
                     \o <<" ","r","e","s","u","l","t","s"," ","f","o","r"," ","q","u","e","r","y",":"," ","\"">> \o pq.original \o <<"\"", "\n", "\n">>
           breakdown ==
             <<"R","e","s","u","l","t","s"," ","b","y"," ","s","o","u","r","c","e",":">> \o <<"\n">>
             \o concat([i \in 1..Len(agents) |->
                          <<"-"," ">> \o agents[i] \o <<":"," ">>
                          \o toString(countAgent(agents[i]))
                          \o <<" ","r","e","s","u","l","t","s">> \o <<"\n">>])
           topResult == results[1]
           preview ==
             <<"\n">> \o <<"T","o","p"," ","r","e","s","u","l","t"," ","(">> \o toString(MathRound(numMul(topResult.score, number(100))))
             \o <<"%"," ","m","a","t","c","h",")",":">> \o <<"\n">>
             \o (IF Len(topResult.snippets) > 0 THEN topResult.snippets[1].text ELSE <<>>)
       IN header \o breakdown \o preview

(***************************************************************************)
(* The scores of the documents of DocPool for the queries of Queries are   *)
(* functions of the document and of the query; they are worked out once.   *)
(***************************************************************************)
ProcessedQueries == [q \in Queries |-> processQuery(q, <<>>)]

TextScores ==
  [i \in 1..Len(DocPool), q \in Queries |-> calculateTextScore(DocPool[i], ProcessedQueries[q])]

QueryVectors == {Encode(q) : q \in Queries}

DocVectors ==
  {DocPool[i].vector_embedding : i \in 1..Len(DocPool)}
  \cup {Encode(DocPool[i].text) : i \in 1..Len(DocPool)}

Cosines ==
  [vec1 \in QueryVectors, vec2 \in DocVectors |-> calculateCosineSimilarity(vec1, vec2)]

\* what the store's index returns as vectorSearchScore for a query vector and
\* an embedding, a number in (0, 1]: 1 / (1 + the squared distance), and 0 for
\* vectors of different lengths
IndexScores ==
  LET vectorSearchScore(queryVector, embedding) ==
        IF Len(queryVector) # Len(embedding) THEN Zero
        ELSE LET diff == [i \in 1..Len(embedding) |-> queryVector[i] - embedding[i]]
             IN numDiv(One, number(1 + dot(diff, diff)))
  IN [vec1 \in QueryVectors, vec2 \in DocVectors \ {<<>>} |-> vectorSearchScore(vec1, vec2)]

(***************************************************************************)
(* search-simple: processSearchQuery                                       *)
(***************************************************************************)
SimpleLimit == 10

SnippetWindow == 50

FallbackSnippetLength == 100

MockResults == 3

\* the query searchMongoDB builds
matchesSimpleQuery(doc, query, filters) ==
  /\ \/ regexMatch(doc.text, query)
     \/ regexMatch(doc.summary, query)
     \/ regexMatch(doc.filename, query)
  /\ filters.agent # <<>> => doc.agent = filters.agent
  /\ filters.dateFrom # <<>> => doc.created_at >= filters.dateFrom[1]
  /\ filters.dateTo # <<>> => doc.created_at <= filters.dateTo[1]

Ellipsis == <<".",".",".">>

\* the while loop over queryRegex.exec: at most 3 snippets.  occurrences: where
\* the query occurs in the text, whatever the case.  regexExec:
\* queryRegex.exec from lastIndex (a count of characters already consumed) of
\* /(.{0,50}query.{0,50})/gi: <<>> for null, else <<first, last>> of the match.
\* The match starts at the first position that has an occurrence of the query
\* within the window after it; both .{0,50} are greedy.
RECURSIVE matchSnippets(_, _, _, _, _)
matchSnippets(text, query, lastIndex, score, snippets) ==
  LET occurrences ==
        {o \in 1..(Len(text) - Len(query) + 1) :
           toLowerCase(SubSeq(text, o, o + Len(query) - 1)) = toLowerCase(query)}
      regexExec ==
        LET occ == {o \in occurrences : o > lastIndex}
        IN IF occ = {} THEN <<>>
           ELSE LET first == IF Min(occ) - SnippetWindow > lastIndex + 1
                             THEN Min(occ) - SnippetWindow ELSE lastIndex + 1
                    at    == Max({o \in occ : o - first <= SnippetWindow})
                    stop  == at + Len(query) - 1 + SnippetWindow
                IN <<first, IF stop > Len(text) THEN Len(text) ELSE stop>>
      m == regexExec
  IN IF m = <<>> \/ Len(snippets) >= MaxSnippets THEN snippets
     ELSE matchSnippets(text, query, m[2], score,
            Append(snippets,
                   [text  |-> Ellipsis \o SubSeq(text, m[1], m[2]) \o Ellipsis,
                    score |-> numSub(score, numMul(number(Len(snippets)), decimal(5, 100)))]))

\* the result of a document with its score; its snippets are the matches, or
\* the start of the text when there is none
scoredResult(doc, score, query) ==
  [id |-> doc._id, agent |-> doc.agent,
   score |-> score,
   snippets |-> LET snippetsOf(matched) ==
                      IF matched = <<>> /\ doc.text # <<>>
                      THEN <<[text  |-> slice0(doc.text, FallbackSnippetLength) \o Ellipsis,
                              score |-> numSub(score, OneTenth)]>>
                      ELSE matched
                IN snippetsOf(matchSnippets(doc.text, query, 0, score, <<>>)),
   metadata |-> [created_at |-> doc.created_at,
                 filename |-> IF doc.filename # <<>> THEN doc.filename
                              ELSE <<"u","n","k","n","o","w","n",".","p","d","f">>]]

\* the response with its results and its summary
simpleResponse(query, results, summary, searchType) ==
  [status |-> "ok", query |-> query,
   processed_query |-> [original   |-> query,
                        normalized |-> toLowerCase(query),
                        keywords   |-> split(toLowerCase(query), {" "}),
                        entities   |-> <<>>,
                        intent     |-> "INFORMATION"],
   results |-> results, summary |-> summary, total_results |-> Len(results),
   search_type |-> searchType]

\* the response built from the documents the store returned, which are not
\* none, with the summary of their results; mongoResults.map: the score of
\* the document at index is 1 - (index * 0.1)
mongoResponse(query, documents) ==
  LET mongoResults ==
        [i \in 1..Len(documents) |->
           scoredResult(documents[i], numSub(One, numMul(number(i - 1), OneTenth)), query)]
      summarised(results) ==
        simpleResponse(query, results,
        <<"F","o","u","n","d"," ">> \o toString(Len(results)) \o <<" ","r","e","s","u","l","t","s"," ","f","o","r"," ","q","u","e","r","y",":"," ","\"">> \o query
        \o <<"\"", "\n", "\n">> \o <<"R","e","s","u","l","t","s"," ","b","y"," ","s","o","u","r","c","e",":">> \o <<"\n">>
        \o <<"-"," ">> \o results[1].agent \o <<":"," ">> \o toString(Len(results))
        \o <<" ","r","e","s","u","l","t","s">> \o <<"\n", "\n">> \o <<"T","o","p"," ","r","e","s","u","l","t",":">> \o <<"\n">>
        \o (IF Len(results[1].snippets) > 0 THEN results[1].snippets[1].text
            ELSE <<"N","o"," ","t","e","x","t"," ","s","n","i","p","p","e","t"," ","a","v","a","i","l","a","b","l","e">>),
          "mongodb")
  IN summarised(mongoResults)

\* mock result i: id is what generateMongoDBId returned, now is Date.now() in
\* days
mockResult(i, id, score, query, now) ==
  [id |-> id, agent |-> PDFAgent, score |-> score,
   snippets |->
       <<[text |-> <<"T","h","i","s"," ","i","s"," ","a"," ","s","n","i","p","p","e","t"," ","f","r","o","m"," ","d","o","c","u","m","e","n","t"," ">> \o toString(i) \o <<" ","t","h","a","t"," ","m","a","t","c","h","e","s"," ","t","h","e"," ","q","u","e","r","y"," ","\"">> \o query \o <<"\"",".">>,
          score |-> score],
         [text |-> <<"A","n","o","t","h","e","r"," ","r","e","l","e","v","a","n","t"," ","s","e","c","t","i","o","n"," ","f","r","o","m"," ","d","o","c","u","m","e","n","t"," ">> \o toString(i) \o <<" ","w","i","t","h"," ","i","n","f","o","r","m","a","t","i","o","n"," ","a","b","o","u","t"," ">> \o query \o <<".">>,
          score |-> numSub(score, OneTenth)]>>,
   metadata |-> [created_at |-> now - i,
                 filename |-> <<"d","o","c","u","m","e","n","t","-">> \o toString(i) \o <<".","p","d","f">>]]

\* the mock results: ids[i] is what generateMongoDBId returned for result i
mockResponse(query, ids, now) ==
  simpleResponse(query,
                 [i \in 1..MockResults |-> mockResult(i, ids[i], numSub(One, numMul(number(i), TwoTenths)), query, now)],
                 <<"F","o","u","n","d"," ">> \o toString(MockResults) \o <<" ","r","e","s","u","l","t","s"," ","f","o","r"," ","q","u","e","r","y",":"," ","\"">> \o query
                 \o <<"\"", "\n", "\n">> \o <<"R","e","s","u","l","t","s"," ","b","y"," ","s","o","u","r","c","e",":">> \o <<"\n">>
                 \o <<"-"," ","P","D","F","E","x","t","r","a","c","t","o","r","A","g","e","n","t",":"," ","3"," ","r","e","s","u","l","t","s">> \o <<"\n", "\n">> \o <<"T","o","p"," ","r","e","s","u","l","t"," ","(","8","0","%"," ","m","a","t","c","h",")",":">> \o <<"\n">>
                 \o <<"T","h","i","s"," ","i","s"," ","a"," ","s","n","i","p","p","e","t"," ","f","r","o","m"," ","d","o","c","u","m","e","n","t"," ">> \o <<"1">> \o <<" ","t","h","a","t"," ","m","a","t","c","h","e","s"," ","t","h","e"," ","q","u","e","r","y"," ","\"">> \o query \o <<"\"",".">>,
                 "mock")

(***************************************************************************)
(* State                                                                   *)
(***************************************************************************)
\* documents the collection may hold
MaxDocs == 3

\* values generateMongoDBId and Date.now may return
MockSeeds == 2

BruteForceLimit == 1000

VARIABLES
  host,         \* what serves the requests: the SearchAgent or the search-simple function
  cfg,          \* the SearchAgent's fields: db, useVectorSearch, vectorizer, maxResults, minScore
  store,        \* the agent_results collection, in insertion order
  vectorIndex,  \* the collection advertises an index named vector_index
  readyState,   \* mongoose.connection.readyState
  req,          \* the request in progress and where it is suspended: pc; seen is the
                \* collection when the store answered, docs the documents it returned,
                \* indexQueries the $vectorSearch queries it has sent
  resp,         \* the response of the request, once it is done
  prev          \* the first run of a request that is being repeated

vars == <<host, cfg, store, vectorIndex, readyState, req, resp, prev>>

\* the SearchAgent constructor: db is "none" (no handle), "mock" (the handle
\* getMockDb returns) or "mongo"; maxResults = 0 and minScore = 0 are what
\* || replaces by the default, as it does an option that is not given
SearchAgent(options) ==
  [db              |-> options.db,
   useVectorSearch |-> options.useVectorSearch,
   vectorizer      |-> options.vectorizer,
   maxResults      |-> IF options.maxResults # 0 THEN options.maxResults ELSE MaxResultsDefault,
   minScore        |-> IF options.minScore # Zero THEN options.minScore ELSE MinScoreDefault]

\* the options of the constructor; maxResults and minScore: not given, a lower
\* minScore (0.25), one result only
Options ==
  { [db |-> db, useVectorSearch |-> u, vectorizer |-> v,
     maxResults |-> l.maxResults, minScore |-> l.minScore] :
    db \in {"none", "mock", "mongo"}, u \in BOOLEAN, v \in BOOLEAN,
    l \in { [maxResults |-> 0, minScore |-> Zero],
            [maxResults |-> 0, minScore |-> decimal(25, 100)],
            [maxResults |-> 1, minScore |-> decimal(25, 100)] } }

NoResp == [status |-> "none"]

NoPrev == [valid |-> FALSE]

Idle ==
  [pipeline |-> "none", pc |-> "idle", query |-> <<>>, filters |-> <<>>,
   pq |-> <<>>, seen |-> <<>>, docs |-> <<>>, pending |-> {}, strategy |-> "none",
   storeCalls |-> 0, encoderCalls |-> 0, encoded |-> {},
   answered |-> FALSE, storeFailed |-> FALSE, encodeFailed |-> {}, indexQueries |-> <<>>]

Init ==
  /\ host \in {"agent", "function"}
  /\ cfg \in IF host = "agent" THEN {SearchAgent(o) : o \in Options}
             ELSE {SearchAgent([db |-> "none", useVectorSearch |-> FALSE, vectorizer |-> FALSE,
                                maxResults |-> 0, minScore |-> Zero])}
  /\ store = <<>>
  /\ vectorIndex \in IF host = "agent" /\ cfg.db = "mongo" /\ cfg.useVectorSearch /\ cfg.vectorizer
                     THEN BOOLEAN ELSE {FALSE}
  /\ readyState = 2
  /\ req = Idle
  /\ resp = NoResp
  /\ prev = NoPrev

(***************************************************************************)
(* SearchAgent.process and _process, one action for each await             *)
(***************************************************************************)
errorResponse(error) == [status |-> "error", error |-> error]

\* a validation that accepts every input
validateNothing(input) == "valid"

\* validateInput: the message of the error it throws, "valid" when it returns;
\* a query that is missing or empty is <<>>
validateInput(input) ==
  IF input.query = <<>> THEN "Search query is required" ELSE "valid"

\* the value _process returns
agentResponse(r, rankedResults) ==
  [status |-> "ok", query |-> r.query, processed_query |-> r.pq,
   results |-> rankedResults, summary |-> generateSummary(rankedResults, r.pq),
   total_results |-> Len(rankedResults),
   search_type |-> IF cfg.useVectorSearch THEN "vector" ELSE "text"]

\* what the handle's collection holds: the mock handle's find returns []
collection == IF cfg.db = "mongo" THEN store ELSE <<>>

\* rankResults and generateSummary on the candidates of a strategy
finish(r, searchResults) ==
  /\ req' = [r EXCEPT !.pc = "done"]
  /\ resp' = agentResponse(r, rankResults(searchResults, r.pq, cfg.minScore))

fail(r, error) ==
  /\ req' = [r EXCEPT !.pc = "done"]
  /\ resp' = errorResponse(error)

\* the strategy _process chooses once processQuery has returned
dispatch(r) ==
  IF cfg.useVectorSearch /\ cfg.vectorizer
  THEN [r EXCEPT !.pc = "listCollections", !.storeCalls = @ + 1]
  ELSE [r EXCEPT !.pc = "textFind", !.strategy = "text", !.storeCalls = @ + 1]

\* _process up to its first await
startProcess(r) ==
  IF cfg.db = "none" THEN fail(r, "Database connection required for search")
  ELSE IF cfg.vectorizer
       THEN /\ req' = [r EXCEPT !.pc = "encodeQuery", !.encoderCalls = @ + 1]
            /\ resp' = NoResp
       ELSE /\ req' = dispatch([r EXCEPT !.pq = ProcessedQueries[r.query]])
            /\ resp' = NoResp

\* BaseAgent.process: validateInput, then _process
process(input) ==
  LET r == [Idle EXCEPT !.pipeline = "agent", !.query = input.query, !.filters = input.filters]
  IN IF validateInput(input) # "valid" THEN fail(r, validateInput(input))
     ELSE startProcess(r)

AgentProcess ==
  /\ host = "agent"
  /\ req.pc = "idle"
  /\ \E input \in AgentRequests : process(input)
  /\ UNCHANGED <<host, cfg, store, vectorIndex, readyState, prev>>

\* vectorizer.encode(query) of processQuery returns or throws; in encodeFailed
\* the query is 0, a document is its _id
EncodeQuery ==
  /\ req.pc = "encodeQuery"
  /\ \E ok \in BOOLEAN :
       IF ok
       THEN /\ req' = dispatch([req EXCEPT !.pq = [ProcessedQueries[req.query]
                                                   EXCEPT !.vector = Encode(req.query)]])
            /\ resp' = NoResp
       ELSE fail([req EXCEPT !.encodeFailed = @ \cup {0}], "encode failed")
  /\ UNCHANGED <<host, cfg, store, vectorIndex, readyState, prev>>

\* a call of the store answers (always, for the mock handle) or throws
StoreAnswers == IF cfg.db = "mongo" THEN BOOLEAN ELSE {TRUE}

\* the place of a document in DocPool
poolIndex(doc) == CHOOSE i \in 1..Len(DocPool) : DocPool[i]._id = doc._id

\* the results of performTextSearch for the documents find returned
performTextSearch(r, documents) ==
  [i \in 1..Len(documents) |->
     scored(documents[i], TextScores[poolIndex(documents[i]), r.query])]

\* the store has answered the call of r with documents, the candidates are
\* searchResults
storeAnswered(r, documents, searchResults) ==
  finish([r EXCEPT !.seen = store, !.docs = documents, !.answered = TRUE], searchResults)

TextFind ==
  /\ req.pc = "textFind"
  /\ \E ok \in StoreAnswers :
       IF ok
       THEN LET found(documents) ==
                  storeAnswered(req, documents, performTextSearch(req, documents))
            IN found(slice0(SelectSeq(collection,
                                      LAMBDA d : /\ matchesTextQuery(d, req.pq)
                                                 /\ matchesFilters(d, req.filters)),
                            cfg.maxResults))
       ELSE fail([req EXCEPT !.storeFailed = TRUE], "find failed")
  /\ UNCHANGED <<host, cfg, store, vectorIndex, readyState, prev>>

\* a query without the factor of numCandidates
searchQueryWithoutFactor(r) ==
  [numCandidates |-> cfg.maxResults, limit |-> cfg.maxResults,
   agent |-> r.filters.agent, dateRange |-> r.filters.dateRange]

\* the searchQuery of performMongoDBVectorSearch: $vectorSearch and the filters
searchQuery(r) ==
  [numCandidates |-> cfg.maxResults * 10, limit |-> cfg.maxResults,
   agent |-> r.filters.agent, dateRange |-> r.filters.dateRange]

\* db.listCollections of performVectorSearch; the mock handle lists nothing.
\* With the index, performMongoDBVectorSearch sends its query
ListCollections ==
  /\ req.pc = "listCollections"
  /\ \E ok \in StoreAnswers :
       IF ok
       THEN /\ req' = IF cfg.db = "mongo" /\ vectorIndex
                      THEN [req EXCEPT !.pc = "aggregate", !.strategy = "mongoVector",
                                       !.storeCalls = @ + 1,
                                       !.indexQueries = Append(@, searchQuery(req))]
                      ELSE [req EXCEPT !.pc = "findAll", !.strategy = "memoryVector",
                                       !.storeCalls = @ + 1]
            /\ resp' = NoResp
       ELSE fail([req EXCEPT !.storeFailed = TRUE], "listCollections failed")
  /\ UNCHANGED <<host, cfg, store, vectorIndex, readyState, prev>>

\* the answer of the store to a $vectorSearch query: the limit best of the
\* indexed documents that pass the filters, each with its score
performMongoDBVectorSearch(r) ==
  LET query == r.indexQueries[Len(r.indexQueries)]
      withScores(indexed) ==
        [i \in 1..Len(indexed) |->
           scored(indexed[i], IndexScores[r.pq.vector, indexed[i].vector_embedding])]
  IN slice0(sortByScore(withScores(
              SelectSeq(store, LAMBDA d : /\ d.vector_embedding # <<>>
                                          /\ matchesFilters(d, query)))),
            Min({query.limit, query.numCandidates}))

Aggregate ==
  /\ req.pc = "aggregate"
  /\ \E ok \in StoreAnswers :
       IF ok
       THEN LET aggregated(documents) == storeAnswered(req, documents, documents)
            IN aggregated(performMongoDBVectorSearch(req))
       ELSE fail([req EXCEPT !.storeFailed = TRUE], "aggregate failed")
  /\ UNCHANGED <<host, cfg, store, vectorIndex, readyState, prev>>

\* a scoring that slices before it sorts
scoreInMemorySlicedFirst(r, documentsWithVectors) ==
  LET scoredDocuments ==
        [i \in 1..Len(documentsWithVectors) |->
           scored(documentsWithVectors[i],
                  Cosines[r.pq.vector, documentsWithVectors[i].vector_embedding])]
  IN sortByScore(slice0(SelectSeq(scoredDocuments, LAMBDA d : GreaterEq(d.score, cfg.minScore)),
                        cfg.maxResults))

\* the scoring without its slice
scoreInMemoryUnsliced(r, documentsWithVectors) ==
  LET scoredDocuments ==
        [i \in 1..Len(documentsWithVectors) |->
           scored(documentsWithVectors[i],
                  Cosines[r.pq.vector, documentsWithVectors[i].vector_embedding])]
  IN sortByScore(SelectSeq(scoredDocuments, LAMBDA d : GreaterEq(d.score, cfg.minScore)))

\* the end of performInMemoryVectorSearch, on documents that all have a vector
scoreInMemory(r, documentsWithVectors) ==
  LET scoredDocuments ==
        [i \in 1..Len(documentsWithVectors) |->
           scored(documentsWithVectors[i],
                  Cosines[r.pq.vector, documentsWithVectors[i].vector_embedding])]
  IN slice0(sortByScore(SelectSeq(scoredDocuments, LAMBDA d : GreaterEq(d.score, cfg.minScore))),
            cfg.maxResults)

\* the documents are scored once none waits for its vector
scoreWhenComplete(r) ==
  IF r.pending = {} THEN finish(r, scoreInMemory(r, r.docs))
  ELSE req' = [r EXCEPT !.pc = "backfill"] /\ resp' = NoResp

\* encode is called for every document find returned without a vector
backfill(r, documents) ==
  LET missing == {i \in 1..Len(documents) : documents[i].vector_embedding = <<>>}
  IN scoreWhenComplete([r EXCEPT !.seen = store, !.docs = documents, !.pending = missing,
                                 !.answered = TRUE,
                                 !.encoderCalls = @ + Cardinality(missing),
                                 !.encoded = {documents[i]._id : i \in missing}])

\* the find of performInMemoryVectorSearch returns: encode is called for every
\* document without a vector, and Promise.all waits for them
FindAll ==
  /\ req.pc = "findAll"
  /\ \E ok \in StoreAnswers :
       IF ok
       THEN backfill(req, slice0(SelectSeq(collection,
                                           LAMBDA d : matchesFilters(d, req.filters)),
                                 BruteForceLimit))
       ELSE fail([req EXCEPT !.storeFailed = TRUE], "find failed")
  /\ UNCHANGED <<host, cfg, store, vectorIndex, readyState, prev>>

\* a backfill that sets the vector on the document whose encode was started
\* first, whichever encode has returned
setEmbeddingOfFirst(r, i) ==
  [r EXCEPT !.docs[Min(r.pending)].vector_embedding = Encode(r.docs[i].text),
            !.pending = @ \ {i}]

\* doc.vector_embedding = await this.vectorizer.encode(doc.text), for the
\* fetched document i of request r
setEmbedding(r, i) ==
  [r EXCEPT !.docs[i].vector_embedding = Encode(r.docs[i].text), !.pending = @ \ {i}]

\* a backfill that writes a vector on every document of the collection, the
\* documents that have one included
BackfillEncodeOverwriting ==
  /\ req.pc = "backfill"
  /\ \E i \in req.pending :
       scoreWhenComplete([req EXCEPT !.docs[i].vector_embedding = Encode(req.docs[i].text),
                                     !.pending = @ \ {i}])
  /\ store' = [k \in 1..Len(store) |->
                 [store[k] EXCEPT !.vector_embedding = Encode(store[k].text)]]
  /\ UNCHANGED <<host, cfg, vectorIndex, readyState, prev>>

\* one vectorizer.encode of the backfill returns or throws: the vector is set
\* on the fetched document; a throw rejects Promise.all
BackfillEncode ==
  /\ req.pc = "backfill"
  /\ \E i \in req.pending, ok \in BOOLEAN :
       IF ok
       THEN scoreWhenComplete(setEmbedding(req, i))
       ELSE fail([req EXCEPT !.encodeFailed = @ \cup {req.docs[i]._id}], "encode failed")
  /\ UNCHANGED <<host, cfg, store, vectorIndex, readyState, prev>>

(***************************************************************************)
(* search-simple: processSearchQuery, called by the handler with a query   *)
(* that is not empty                                                       *)
(***************************************************************************)
\* the requests to search-simple: every query without filters, and a query
\* that several documents match with each of the filters agent, dateFrom,
\* dateTo; a bound that is not given is <<>>, a given one is <<t>>
SimpleRequests ==
  {[query |-> q, filters |-> [agent |-> <<>>, dateFrom |-> <<>>, dateTo |-> <<>>]] :
     q \in Queries \ {<<>>}}
  \cup {[query |-> <<"f","u","n">>, filters |-> f] :
          f \in { [agent |-> PDFAgent, dateFrom |-> <<>>, dateTo |-> <<>>],
                  [agent |-> <<>>, dateFrom |-> <<2>>, dateTo |-> <<>>] }}

startSimple(input) ==
  /\ req' = [Idle EXCEPT !.pipeline = "simple", !.pc = "simpleFind",
                         !.query = input.query, !.filters = input.filters]
  /\ resp' = NoResp

SimpleProcess ==
  /\ host = "function"
  /\ req.pc = "idle"
  /\ \E input \in SimpleRequests : startSimple(input)
  /\ UNCHANGED <<host, cfg, store, vectorIndex, readyState, prev>>

\* the fallback of processSearchQuery, with what generateMongoDBId and Date.now
\* return
mockFallback(r) ==
  /\ req' = [r EXCEPT !.pc = "done"]
  /\ \E seed \in 1..MockSeeds :
       resp' = mockResponse(r.query, [i \in 1..MockResults |-> 100 * seed + i], 10 + seed)

\* searchMongoDB: null unless connected; the find answers with the documents
\* or throws, and a throw is caught and returns null
searchMongoDB(r, outcome) ==
  IF outcome = "unconnected" THEN r
  ELSE IF outcome = "throws" THEN [r EXCEPT !.storeCalls = @ + 1, !.storeFailed = TRUE]
  ELSE [r EXCEPT !.storeCalls = @ + 1, !.answered = TRUE, !.seen = store,
                 !.docs = slice0(SelectSeq(store,
                                           LAMBDA d : matchesSimpleQuery(d, r.query, r.filters)),
                                 SimpleLimit)]

\* processSearchQuery once searchMongoDB has returned
searched(r) ==
  IF r.answered /\ Len(r.docs) > 0
  THEN /\ req' = [r EXCEPT !.pc = "done"]
       /\ resp' = mongoResponse(r.query, r.docs)
  ELSE mockFallback(r)

\* getConnectionStatus().status is 'connected' when readyState is 1
SimpleFind ==
  /\ req.pc = "simpleFind"
  /\ \E outcome \in IF readyState = 1 THEN {"answers", "throws"}
                    ELSE {"unconnected"} :
       searched(searchMongoDB(req, outcome))
  /\ UNCHANGED <<host, cfg, store, vectorIndex, readyState, prev>>

(***************************************************************************)
(* The callers and the environment                                         *)
(***************************************************************************)
\* the same request is sent again
Repeat ==
  /\ req.pc = "done"
  /\ ~prev.valid
  /\ prev' = [valid |-> TRUE, resp |-> resp, seen |-> req.seen, strategy |-> req.strategy,
              encoded |-> req.encoded, answered |-> req.answered]
  /\ IF req.pipeline = "agent"
     THEN process([query |-> req.query, filters |-> req.filters])
     ELSE startSimple([query |-> req.query, filters |-> req.filters])
  /\ UNCHANGED <<host, cfg, store, vectorIndex, readyState>>

\* the caller has its response
Return ==
  /\ req.pc = "done"
  /\ req' = Idle
  /\ resp' = NoResp
  /\ prev' = NoPrev
  /\ UNCHANGED <<host, cfg, store, vectorIndex, readyState>>

\* the document handler stores an agent's result: insertOne
Ingest ==
  /\ Len(store) < MaxDocs
  /\ \E i \in 1..Len(DocPool) :
       /\ IF store = <<>> THEN TRUE ELSE i > poolIndex(store[Len(store)])
       /\ store' = Append(store, DocPool[i])
  /\ UNCHANGED <<host, cfg, vectorIndex, readyState, req, resp, prev>>

\* mongoose.connect resolves
MongooseConnected ==
  /\ host = "function"
  /\ readyState = 2
  /\ readyState' = 1
  /\ UNCHANGED <<host, cfg, store, vectorIndex, req, resp, prev>>

\* mongoose.connect rejects
MongooseConnectFailed ==
  /\ host = "function"
  /\ readyState = 2
  /\ readyState' = 0
  /\ UNCHANGED <<host, cfg, store, vectorIndex, req, resp, prev>>

\* the connection is lost
MongooseDisconnected ==
  /\ host = "function"
  /\ readyState = 1
  /\ readyState' = 0
  /\ UNCHANGED <<host, cfg, store, vectorIndex, req, resp, prev>>

\* the reconnection that follows a disconnect
MongooseReconnect ==
  /\ host = "function"
  /\ readyState = 0
  /\ readyState' = 2
  /\ UNCHANGED <<host, cfg, store, vectorIndex, req, resp, prev>>

Next ==
  \/ AgentProcess
  \/ EncodeQuery
  \/ TextFind
  \/ ListCollections
  \/ Aggregate
  \/ FindAll
  \/ BackfillEncode
  \/ SimpleProcess
  \/ SimpleFind
  \/ Repeat
  \/ Return
  \/ Ingest
  \/ MongooseConnected
  \/ MongooseConnectFailed
  \/ MongooseDisconnected
  \/ MongooseReconnect

Spec == Init /\ [][Next]_vars

(***************************************************************************)
(* The functions of the search on their own: an argument list is drawn,    *)
(* then the function is applied to it.  req is the call: its function      *)
(* (op), its arguments (vec1, vec2; result, a document; results, the       *)
(* candidates of a strategy; query) and pc; resp is the value returned.    *)
(***************************************************************************)
\* the largest component of a vector
MaxComponent == 2

\* the argument lists.  Vectors: missing or empty (<<>>), of one and of two
\* components, all-zero ones among them.  Documents: those of DocPool, one
\* whose sentences score 0.1, 0.2, 0.7 and 0.1 for "Machine Learning", one
\* that holds "fun" four times, more than a hundred characters apart.
\* Queries: those of Queries but the empty one, one with an organization, one
\* with a date, punctuation and an underscore, one that starts with a space.
\* processSearchQuery is given a document that searchMongoDB returns for the
\* query.  The queries of processQuery also hold one or two of the words
\* how, what, when, where and show, in each order.  Candidates: the first three documents in each order, each with a
\* score that is NaN, below the minimum, the minimum or above it.
FunctionCalls ==
  LET components == -1..MaxComponent
      vectors == {<<>>} \cup {<<x>> : x \in components}
                 \cup {<<x, y>> : x \in components, y \in components}
      filler == [i \in 1..60 |-> "x"]
      fun == <<"f","u","n">>
      documents ==
        {DocPool[i] : i \in 1..Len(DocPool)}
        \cup { [_id |-> 5, agent |-> PDFAgent,
                text |-> <<"M","a","c","h","i","n","e","."," ","L","e","a","r","n","i","n","g"," ","m","a","c","h","i","n","e","."," ","M","a","c","h","i","n","e"," ","l","e","a","r","n","i","n","g","."," ","A"," ","m","a","c","h","i","n","e","!">>,
                summary |-> <<>>, filename |-> <<>>,
                entities |-> << <<"a","c","m","e"," ","i","n","c">> >>,
                created_at |-> 5, vector_embedding |-> <<>>],
               [_id |-> 6, agent |-> OCRAgent,
                text |-> fun \o filler \o fun \o filler \o fun \o filler \o fun,
                summary |-> <<>>, filename |-> <<>>,
                entities |-> <<>>,
                created_at |-> 6, vector_embedding |-> <<>>] }
      queries ==
        (Queries \ {<<>>})
        \cup { <<"A","c","m","e"," ","I","n","c">>,
               <<"O","n"," ","2","0","2","4","-","0","1","-","1","5",","," ","a","_","b"," ","i","s","!">>,
               <<" ","f","u","n">> }
      words == { <<"H","o","w">>, <<"w","h","a","t">>, <<"W","H","E","N">>,
                 <<"w","h","e","r","e">>, <<"s","h","o","w">> }
      intentQueries == words \cup {a \o <<" ">> \o b : a \in words, b \in words}
      scores == {NaN, decimal(25, 100), Half, One}
      orders == {o \in [1..3 -> 1..3] : \A i, j \in 1..3 : i # j => o[i] # o[j]}
      candidates == {[i \in 1..3 |-> scored(DocPool[o[i]], s[i])] :
                       o \in orders, s \in [1..3 -> scores]}
      call(op, vec1, vec2, result, query) ==
        [op |-> op, pc |-> "called", vec1 |-> vec1, vec2 |-> vec2,
         result |-> result, results |-> <<>>, query |-> query]
  IN {call("calculateCosineSimilarity", a, b, DocPool[1], <<>>) : a \in vectors, b \in vectors}
     \cup {[call("rankResults", <<>>, <<>>, DocPool[1], <<"f","u","n">>)
              EXCEPT !.results = c] : c \in candidates}
     \cup {call(op, <<>>, <<>>, d, q) :
             op \in {"calculateTextScore", "extractRelevantSnippets"},
             d \in documents, q \in queries}
     \cup {call("processSearchQuery", <<>>, <<>>, c[1], c[2]) :
             c \in {x \in documents \X queries :
                      matchesSimpleQuery(x[1], x[2], [agent |-> <<>>, dateFrom |-> <<>>,
                                                      dateTo |-> <<>>])}}
     \cup {call("processQuery", <<>>, <<>>, DocPool[1], q) : q \in queries \cup intentQueries}

FunctionsInit ==
  /\ host = "agent"
  /\ cfg = SearchAgent([db |-> "none", useVectorSearch |-> FALSE, vectorizer |-> FALSE,
                        maxResults |-> 0, minScore |-> Zero])
  /\ store = <<>>
  /\ vectorIndex = FALSE
  /\ readyState = 0
  /\ req \in FunctionCalls
  /\ resp = NoResp
  /\ prev = NoPrev

\* the call returns value
returned(value) ==
  /\ req' = [req EXCEPT !.pc = "returned"]
  /\ resp' = [status |-> "returned", value |-> value]
  /\ UNCHANGED <<host, cfg, store, vectorIndex, readyState, prev>>

CalculateCosineSimilarity ==
  /\ req.op = "calculateCosineSimilarity" /\ req.pc = "called"
  /\ returned(calculateCosineSimilarity(req.vec1, req.vec2))

CalculateTextScore ==
  /\ req.op = "calculateTextScore" /\ req.pc = "called"
  /\ returned(calculateTextScore(req.result, processQuery(req.query, <<>>)))

ProcessQuery ==
  /\ req.op = "processQuery" /\ req.pc = "called"
  /\ returned(processQuery(req.query, <<>>))

ExtractRelevantSnippets ==
  /\ req.op = "extractRelevantSnippets" /\ req.pc = "called"
  /\ returned(extractRelevantSnippets(req.result, processQuery(req.query, <<>>)))

RankResults ==
  /\ req.op = "rankResults" /\ req.pc = "called"
  /\ returned(rankResults(req.results, processQuery(req.query, <<>>), cfg.minScore))

\* processSearchQuery once searchMongoDB has returned the document
ProcessSearchQuery ==
  /\ req.op = "processSearchQuery" /\ req.pc = "called"
  /\ returned(mongoResponse(req.query, <<req.result>>))

FunctionsNext ==
  \/ CalculateCosineSimilarity
  \/ CalculateTextScore
  \/ ProcessQuery
  \/ ExtractRelevantSnippets
  \/ RankResults
  \/ ProcessSearchQuery

SpecFunctions == FunctionsInit /\ [][FunctionsNext]_vars

(***************************************************************************)
(* Concurrent brute-force searches of one SearchAgent.  JavaScript runs    *)
(* one handler at a time; the searches interleave at their awaits.  Each   *)
(* search holds the documents its own find returned.  A search is followed *)
(* from the await of its find: processQuery and listCollections have       *)
(* returned.  A caller may abandon a search at any await.                  *)
(***************************************************************************)
\* searches in progress at once
MaxSearches == 2

\* the store holds documents of DocPool, and every embedding it holds is the
\* encoder's output for the text
ConcurrentInit ==
  /\ host = "agent"
  /\ cfg \in {SearchAgent(o) : o \in {x \in Options : x.db = "mongo" /\ x.useVectorSearch /\ x.vectorizer}}
  /\ store = [k \in 1..Min({MaxDocs, Len(DocPool)}) |->
                [DocPool[k] EXCEPT !.vector_embedding =
                                     IF @ = <<>> THEN <<>> ELSE Encode(DocPool[k].text)]]
  /\ vectorIndex = FALSE
  /\ readyState = 2
  /\ req = [p \in 1..MaxSearches |-> Idle]
  /\ resp = [p \in 1..MaxSearches |-> NoResp]
  /\ prev = NoPrev

\* search p goes on as r, and its response is response
continue(p, r, response) ==
  /\ req' = [req EXCEPT ![p] = r]
  /\ resp' = [resp EXCEPT ![p] = response]

\* the end of performInMemoryVectorSearch and of _process once no document of
\* r waits for its vector
completeWhenEncoded(p, r) ==
  IF r.pending = {}
  THEN continue(p, [r EXCEPT !.pc = "done"],
                agentResponse(r, rankResults(scoreInMemory(r, r.docs), r.pq, cfg.minScore)))
  ELSE continue(p, [r EXCEPT !.pc = "backfill"], NoResp)

\* a search is called, with a query that has keywords, and reaches the await
\* of its find
ConcurrentProcess ==
  /\ \E p \in 1..MaxSearches, query \in {q \in Queries : ProcessedQueries[q].keywords # <<>>} :
       /\ req[p].pc = "idle"
       /\ continue(p, [Idle EXCEPT !.pipeline = "agent", !.pc = "findAll",
                                   !.query = query, !.filters = NoFilters,
                                   !.pq = [ProcessedQueries[query] EXCEPT !.vector = Encode(query)],
                                   !.strategy = "memoryVector",
                                   !.storeCalls = 2, !.encoderCalls = 1],
                   NoResp)
  /\ UNCHANGED <<host, cfg, store, vectorIndex, readyState, prev>>

\* the find of a search returns its own copies of the documents
ConcurrentFindAll ==
  /\ \E p \in 1..MaxSearches :
       /\ req[p].pc = "findAll"
       /\ LET fetch(r, documents) ==
                completeWhenEncoded(p,
                  [r EXCEPT !.seen = store, !.docs = documents, !.answered = TRUE,
                            !.pending = {i \in 1..Len(documents) :
                                           documents[i].vector_embedding = <<>>}])
          IN fetch(req[p], slice0(SelectSeq(collection,
                                            LAMBDA d : matchesFilters(d, req[p].filters)),
                                  BruteForceLimit))
  /\ UNCHANGED <<host, cfg, store, vectorIndex, readyState, prev>>

\* one encode of the backfill of a search returns or throws; a search that has
\* thrown keeps no document
ConcurrentBackfillEncode ==
  /\ \E p \in 1..MaxSearches :
       /\ req[p].pc = "backfill"
       /\ \E i \in req[p].pending, ok \in BOOLEAN :
            IF ok THEN completeWhenEncoded(p, setEmbedding(req[p], i))
            ELSE continue(p, [Idle EXCEPT !.pipeline = "agent", !.pc = "done",
                                          !.query = req[p].query,
                                          !.encodeFailed = {req[p].docs[i]._id}],
                          errorResponse("encode failed"))
  /\ UNCHANGED <<host, cfg, store, vectorIndex, readyState, prev>>

\* the caller of a search gives it up at an await: the search does not go on
\* and keeps no document; answered tells whether its find had returned
Abandon ==
  /\ \E p \in 1..MaxSearches :
       /\ req[p].pc \in {"findAll", "backfill"}
       /\ continue(p, [Idle EXCEPT !.pipeline = "agent", !.pc = "abandoned",
                                   !.answered = req[p].answered],
                   NoResp)
  /\ UNCHANGED <<host, cfg, store, vectorIndex, readyState, prev>>

ConcurrentNext ==
  \/ ConcurrentProcess
  \/ ConcurrentFindAll
  \/ ConcurrentBackfillEncode
  \/ Abandon

SpecConcurrent == ConcurrentInit /\ [][ConcurrentNext]_vars

(***************************************************************************)
(* search-simple: the handler.  One invocation is followed: its search,    *)
(* the timer of the search (5 s) and the timer of the function (8 s, set   *)
(* first).  req is the invocation: httpMethod, query, pc ("idle",          *)
(* "racing" at the await of Promise.race, "returned"), searchPromise, the  *)
(* two timers, and uncaught, the exception a timer callback has thrown;    *)
(* resp is the response the handler returned.                              *)
(***************************************************************************)
HandlerInit ==
  /\ host = "function"
  /\ cfg = SearchAgent([db |-> "none", useVectorSearch |-> FALSE, vectorizer |-> FALSE,
                        maxResults |-> 0, minScore |-> Zero])
  /\ store = <<>>
  /\ vectorIndex = FALSE
  /\ readyState = 2
  /\ req = [httpMethod |-> "none", pc |-> "idle", query |-> <<>>,
            filters |-> [agent |-> <<>>, dateFrom |-> <<>>, dateTo |-> <<>>],
            searchPromise |-> "none", searchTimer |-> "none", functionTimer |-> "none",
            uncaught |-> "none", responses |-> 0,
            seen |-> <<>>, docs |-> <<>>, storeCalls |-> 0, answered |-> FALSE,
            storeFailed |-> FALSE]
  /\ resp = NoResp
  /\ prev = NoPrev

\* the handler returns body with statusCode; timer is what has become of the
\* timer of the function on this path
handlerReturns(r, statusCode, body, timer) ==
  /\ req' = [r EXCEPT !.pc = "returned", !.functionTimer = timer, !.responses = @ + 1]
  /\ resp' = [statusCode |-> statusCode, body |-> body]

\* the handler up to the await of Promise.race.  The requests: a method
\* that is allowed or not, a query that is missing, of literal characters,
\* or with a possessive quantifier
Handler ==
  /\ req.pc = "idle"
  /\ \E event \in {[httpMethod |-> m, query |-> q] :
                     m \in {"GET", "POST", "DELETE"},
                     q \in {<<>>, <<"f","u","n">>, <<"i","s">>, <<"c","+","+">>}} :
       LET r == [req EXCEPT !.httpMethod = event.httpMethod, !.query = event.query]
       IN IF event.httpMethod \notin {"GET", "POST"}
          THEN handlerReturns(r, 405, [error |-> "Method not allowed"], "cleared")
          ELSE IF event.query = <<>>
          THEN handlerReturns(r, 400, [error |-> "Bad request"], "cleared")
          ELSE /\ req' = [r EXCEPT !.pc = "racing", !.searchPromise = "pending",
                                   !.searchTimer = "set", !.functionTimer = "set"]
               /\ resp' = NoResp
  /\ UNCHANGED <<host, cfg, store, vectorIndex, readyState, prev>>

\* processSearchQuery settles: it resolves with the results of MongoDB or
\* with the mock results, or it rejects with what new RegExp throws for the
\* first document.  At the await of the race the handler goes on: it clears
\* the timer of the function and returns the result, or it catches the error
\* and returns the fallback.  regExpThrows:
\* new RegExp(`(.{0,50}${query}.{0,50})`, 'gi') throws a SyntaxError, nothing
\* to repeat, when a + of the query follows a quantifier
SearchSettles ==
  /\ req.searchPromise = "pending"
  /\ \E outcome \in IF readyState = 1 THEN {"answers", "throws"} ELSE {"unconnected"},
        seed \in 1..MockSeeds :
       LET r == searchMongoDB(req, outcome)
           regExpThrows(query) ==
             \E i \in 1..Len(query) : query[i] = "+" /\ (i = 1 \/ query[i - 1] = "+")
           rejects == r.answered /\ Len(r.docs) > 0 /\ regExpThrows(r.query)
           result == IF r.answered /\ Len(r.docs) > 0 THEN mongoResponse(r.query, r.docs)
                     ELSE mockResponse(r.query, [i \in 1..MockResults |-> 100 * seed + i],
                                       10 + seed)
           settled == [r EXCEPT !.searchPromise = IF rejects THEN "rejected" ELSE "fulfilled"]
       IN IF req.pc # "racing" THEN req' = settled /\ resp' = resp
          ELSE IF rejects
          THEN handlerReturns(settled, 200,
                              [query |-> IF r.httpMethod = "GET" THEN r.query
                                         ELSE <<"u","n","k","n","o","w","n">>,
                               results |-> <<>>, total_results |-> 0,
                               search_type |-> "error", error |-> "SyntaxError"],
                              r.functionTimer)
          ELSE handlerReturns(settled, 200, result, "cleared")
  /\ UNCHANGED <<host, cfg, store, vectorIndex, readyState, prev>>

\* the timer of the search fires: the race resolves with the timeout response
\* if the search has not settled, and the handler clears the timer of the
\* function and returns it
SearchTimeout ==
  /\ req.searchTimer = "set"
  /\ LET r == [req EXCEPT !.searchTimer = "fired"]
         fallback == simpleResponse(r.query, <<>>,
                                    <<"T","h","e"," ","s","e","a","r","c","h"," ","f","o","r"," ","\"">> \o r.query
                                    \o <<"\""," ","t","i","m","e","d"," ","o","u","t",".">>,
                                    "timeout")
     IN IF req.pc = "racing"
        THEN handlerReturns(r, 200,
                            [query |-> fallback.query,
                             processed_query |-> fallback.processed_query,
                             results |-> fallback.results, summary |-> fallback.summary,
                             total_results |-> fallback.total_results,
                             search_type |-> fallback.search_type,
                             error |-> "Search operation timed out"],
                            "cleared")
        ELSE req' = r /\ resp' = resp
  /\ UNCHANGED <<host, cfg, store, vectorIndex, readyState, prev>>

\* the timer of the function fires, after that of the search, which was set
\* for an earlier time: its callback throws
FunctionTimeout ==
  /\ req.functionTimer = "set"
  /\ req.searchTimer = "fired"
  /\ req' = [req EXCEPT !.functionTimer = "fired", !.uncaught = "Function execution timeout"]
  /\ UNCHANGED <<host, cfg, store, vectorIndex, readyState, resp, prev>>

HandlerNext ==
  \/ Handler
  \/ SearchSettles
  \/ SearchTimeout
  \/ FunctionTimeout
  \/ Ingest
  \/ MongooseConnected
  \/ MongooseConnectFailed
  \/ MongooseDisconnected
  \/ MongooseReconnect

SpecHandler == HandlerInit /\ [][HandlerNext]_vars

(***************************************************************************)
(* mongodb_connection: connectToMongoDB and its concurrent callers.  cfg   *)
(* holds the variables of the module, cachedConnection (whether it is set) *)
(* and connectionAttemptInProgress; req[p] is where call p is suspended    *)
(* (pc), the polls it has made and its mongoose.connect (attempt); resp[p] *)
(* is what call p resolved with, and readyState at that moment.  The       *)
(* connection events that follow a first connection are not followed.      *)
(***************************************************************************)
\* calls of connectToMongoDB in progress at once
MaxCallers == 2

\* the polls of a call that waits for an attempt in progress
PollLimit == 30

ConnectInit ==
  /\ host = "function"
  /\ cfg = [cachedConnection |-> FALSE, connectionAttemptInProgress |-> FALSE]
  /\ store = <<>>
  /\ vectorIndex = FALSE
  /\ readyState = 0
  /\ req = [p \in 1..MaxCallers |-> [pc |-> "idle", polls |-> 0, attempt |-> "none"]]
  /\ resp = [p \in 1..MaxCallers |-> NoResp]
  /\ prev = NoPrev

\* connectToMongoDB is called: it returns the cached connection, or waits for
\* the attempt in progress, or marks its own attempt and calls
\* mongoose.connect
ConnectToMongoDB ==
  /\ \E p \in 1..MaxCallers :
       /\ req[p].pc = "idle"
       /\ IF cfg.cachedConnection /\ readyState = 1
          THEN /\ req' = [req EXCEPT ![p].pc = "done"]
               /\ resp' = [resp EXCEPT ![p] = [status |-> "resolved", value |-> "connection",
                                               readyState |-> readyState]]
               /\ UNCHANGED <<cfg, readyState>>
          ELSE IF cfg.connectionAttemptInProgress
          THEN /\ req' = [req EXCEPT ![p].pc = "polling"]
               /\ UNCHANGED <<cfg, readyState, resp>>
          ELSE /\ req' = [req EXCEPT ![p].pc = "connecting", ![p].attempt = "inflight"]
               /\ cfg' = [cfg EXCEPT !.connectionAttemptInProgress = TRUE]
               /\ readyState' = IF readyState = 1 THEN 1 ELSE 2
               /\ resp' = resp
  /\ UNCHANGED <<host, store, vectorIndex, prev>>

\* a timer of 100 ms of a waiting call fires: it returns the cached
\* connection if there is one; after the last poll it goes on, marks its own
\* attempt and calls mongoose.connect
Poll ==
  /\ \E p \in 1..MaxCallers :
       /\ req[p].pc = "polling"
       /\ IF cfg.cachedConnection /\ readyState = 1
          THEN /\ req' = [req EXCEPT ![p].pc = "done"]
               /\ resp' = [resp EXCEPT ![p] = [status |-> "resolved", value |-> "connection",
                                               readyState |-> readyState]]
               /\ UNCHANGED <<cfg, readyState>>
          ELSE IF req[p].polls + 1 < PollLimit
          THEN /\ req' = [req EXCEPT ![p].polls = @ + 1]
               /\ UNCHANGED <<cfg, readyState, resp>>
          ELSE /\ req' = [req EXCEPT ![p].polls = @ + 1, ![p].pc = "connecting",
                                     ![p].attempt = "inflight"]
               /\ cfg' = [cfg EXCEPT !.connectionAttemptInProgress = TRUE]
               /\ readyState' = IF readyState = 1 THEN 1 ELSE 2
               /\ resp' = resp
  /\ UNCHANGED <<host, store, vectorIndex, prev>>

\* mongoose.connect of call p resolves: if the call still waits for it, it
\* caches the connection, resets the mark and returns the connection
ConnectResolves ==
  /\ \E p \in 1..MaxCallers :
       /\ req[p].attempt = "inflight"
       /\ readyState' = 1
       /\ IF req[p].pc = "connecting"
          THEN /\ req' = [req EXCEPT ![p].pc = "done", ![p].attempt = "resolved"]
               /\ cfg' = [cachedConnection |-> TRUE, connectionAttemptInProgress |-> FALSE]
               /\ resp' = [resp EXCEPT ![p] = [status |-> "resolved", value |-> "connection",
                                               readyState |-> 1]]
          ELSE /\ req' = [req EXCEPT ![p].attempt = "resolved"]
               /\ UNCHANGED <<cfg, resp>>
  /\ UNCHANGED <<host, store, vectorIndex, prev>>

\* mongoose.connect of call p rejects: if the call still waits for it, it
\* clears the cache, resets the mark and returns the mock connection
ConnectRejects ==
  /\ \E p \in 1..MaxCallers :
       /\ req[p].attempt = "inflight"
       /\ readyState' = IF readyState = 1 THEN 1 ELSE 0
       /\ IF req[p].pc = "connecting"
          THEN /\ req' = [req EXCEPT ![p].pc = "done", ![p].attempt = "rejected"]
               /\ cfg' = [cachedConnection |-> FALSE, connectionAttemptInProgress |-> FALSE]
               /\ resp' = [resp EXCEPT ![p] = [status |-> "resolved", value |-> "mock",
                                               readyState |-> 0]]
          ELSE /\ req' = [req EXCEPT ![p].attempt = "rejected"]
               /\ UNCHANGED <<cfg, resp>>
  /\ UNCHANGED <<host, store, vectorIndex, prev>>

\* the timer of 5 s of call p fires before its mongoose.connect has settled:
\* the race rejects, the call clears the cache, resets the mark and returns
\* the mock connection; mongoose.connect goes on
ConnectTimeout ==
  /\ \E p \in 1..MaxCallers :
       /\ req[p].pc = "connecting"
       /\ req' = [req EXCEPT ![p].pc = "done"]
       /\ cfg' = [cachedConnection |-> FALSE, connectionAttemptInProgress |-> FALSE]
       /\ resp' = [resp EXCEPT ![p] = [status |-> "resolved", value |-> "mock",
                                       readyState |-> 0]]
  /\ UNCHANGED <<host, store, vectorIndex, readyState, prev>>

ConnectNext ==
  \/ ConnectToMongoDB
  \/ Poll
  \/ ConnectResolves
  \/ ConnectRejects
  \/ ConnectTimeout

SpecConnect == ConnectInit /\ [][ConnectNext]_vars

(***************************************************************************)
(* Properties                                                              *)
(***************************************************************************)
\* C1: every result of a response has a score in the closed interval [0, 1],
\* whichever strategy produced it and whatever the store holds.
C1_ScoresInUnitInterval ==
  (req.pc = "done" /\ resp.status = "ok")
    => \A i \in 1..Len(resp.results) :
         /\ GreaterEq(resp.results[i].score, Zero)
         /\ GreaterEq(One, resp.results[i].score)

\* C2: the results of a response are in non-increasing order of score: each
\* result's score is at least the score of the result after it.
C2_SortedNonIncreasing ==
  (req.pc = "done" /\ resp.status = "ok")
    => \A i \in 1..(Len(resp.results) - 1) :
         GreaterEq(resp.results[i].score, resp.results[i + 1].score)

\* a text search has ranked a document that the store returned later before
\* one it returned earlier, with a greater score
C2_Witness ==
  /\ req.pc = "done" /\ resp.status = "ok" /\ req.strategy = "text"
  /\ Len(resp.results) >= 2
  /\ req.docs[1]._id = resp.results[2].id
  /\ Greater(resp.results[1].score, resp.results[2].score)

\* C3: a response holds at most the configured maximum of results (maxResults
\* for the SearchAgent, the find's limit for search-simple), and total_results
\* is their number.
C3_AtMostMaxResults ==
  (req.pc = "done" /\ resp.status = "ok")
    => /\ resp.total_results = Len(resp.results)
       /\ req.pipeline = "agent" => Len(resp.results) <= cfg.maxResults
       /\ req.pipeline = "simple" => Len(resp.results) <= SimpleLimit

\* a brute-force search with maxResults = 1 has returned one result of two or
\* more fetched documents that reach minScore
C3_Witness ==
  /\ req.pc = "done" /\ resp.status = "ok" /\ req.strategy = "memoryVector"
  /\ cfg.maxResults = 1
  /\ Len(resp.results) = 1
  /\ Cardinality({i \in 1..Len(req.docs) :
                    GreaterEq(Cosines[req.pq.vector, req.docs[i].vector_embedding],
                              cfg.minScore)}) >= 2

\* C4: a request to the SearchAgent with an empty or missing query ends with
\* the error of validateInput, and no call of the store or of the encoder is
\* made for it.
C4_InvalidQueryBeforeIO ==
  (req.pipeline = "agent" /\ req.query = <<>>)
    => /\ req.pc = "done"
       /\ resp = errorResponse("Search query is required")
       /\ req.storeCalls = 0
       /\ req.encoderCalls = 0

\* an empty query has been rejected by an agent that has a store and an
\* encoder to call
C4_Witness ==
  /\ req.pipeline = "agent" /\ req.query = <<>> /\ req.pc = "done"
  /\ cfg.db = "mongo" /\ cfg.vectorizer /\ cfg.useVectorSearch
  /\ resp.status = "error"

\* C5: with useVectorSearch set and no encoder configured, a search with a
\* valid query on an agent that has a store ends with an error, and the text
\* strategy does not run.
C5_EncoderUnavailable ==
  (/\ req.pipeline = "agent" /\ req.pc = "done" /\ req.query # <<>>
   /\ cfg.useVectorSearch /\ ~cfg.vectorizer /\ cfg.db # "none")
    => resp.status = "error" /\ req.strategy # "text"

\* C6: a search of the SearchAgent with a valid query, without a store handle
\* or with a store call that fails, ends with an empty result set and no error.
C6_StoreUnavailableDegrades ==
  (/\ req.pipeline = "agent" /\ req.pc = "done" /\ req.query # <<>>
   /\ (cfg.db = "none" \/ req.storeFailed))
    => resp.status = "ok" /\ resp.total_results = 0

\* C7: a brute-force search in which the encoding of a fetched document has
\* failed still ends with a response, and the document is not in it.
C7_PartialEmbeddingFailure ==
  (/\ req.pc = "done" /\ req.strategy = "memoryVector"
   /\ req.encodeFailed # {})
    => /\ resp.status = "ok"
       /\ \A i \in 1..Len(resp.results) : resp.results[i].id \notin req.encodeFailed

\* C8: when the store has answered a valid query with no document, the
\* response has no result, total_results = 0, and the summary
\* No results found for query: "<query>".
C8_NoResults ==
  (req.pc = "done" /\ req.answered /\ req.docs = <<>>)
    => /\ resp.status = "ok"
       /\ resp.results = <<>>
       /\ resp.total_results = 0
       /\ resp.summary = NoResultsText \o req.query \o <<"\"">>

\* C9: a request that is repeated, the store having answered both times from
\* the same collection, gets the same results and the same summary.
C9_Idempotent ==
  (/\ prev.valid /\ req.pc = "done"
   /\ prev.answered /\ req.answered /\ prev.seen = req.seen
   /\ prev.resp.status = "ok" /\ resp.status = "ok")
    => /\ resp.results = prev.resp.results
       /\ resp.summary = prev.resp.summary

\* C10: after a brute-force search, every fetched document that had no
\* embedding has one in the store, and a second brute-force search over the
\* same collection calls the encoder for no document.
C10_BackfillPersisted ==
  /\ (req.pc = "done" /\ req.strategy = "memoryVector" /\ resp.status = "ok")
       => \A i \in 1..Len(store) :
            store[i]._id \in req.encoded => store[i].vector_embedding # <<>>
  /\ (/\ prev.valid /\ prev.strategy = "memoryVector" /\ prev.resp.status = "ok"
      /\ req.pc = "done" /\ req.strategy = "memoryVector" /\ req.answered
      /\ prev.seen = req.seen)
       => req.encoded = {}

\* C11: a step of a search changes nothing in the store except, possibly, the
\* embedding of a document that had none: the collection keeps its documents,
\* in their order, each with its _id, text, summary, filename, agent label,
\* entities and creation time, and an embedding that is present stays as it is.
C11_SearchLeavesStore ==
  [][req' # req =>
       /\ Len(store') = Len(store)
       /\ \A k \in 1..Len(store) :
            /\ [store'[k] EXCEPT !.vector_embedding = <<>>]
                 = [store[k] EXCEPT !.vector_embedding = <<>>]
            /\ store[k].vector_embedding # <<>>
                 => store'[k].vector_embedding = store[k].vector_embedding]_vars

\* a brute-force search has fetched a document with an embedding and one
\* without, has encoded the latter and has returned
C11_Witness ==
  /\ req.pc = "done" /\ req.strategy = "memoryVector" /\ resp.status = "ok"
  /\ req.encoded # {}
  /\ \E k \in 1..Len(store) : store[k].vector_embedding # <<>>
  /\ \E k \in 1..Len(store) : store[k].vector_embedding = <<>>

\* C12: under every interleaving of concurrent brute-force searches of one
\* store, some of them abandoned at an await, every stored embedding is absent
\* or is the encoder's output for the document's text, and a search that
\* completes returns what it returns when it runs alone: the ranking of the
\* stored documents, each scored with its embedding or, without one, with the
\* encoder's output for its text.
C12_ConcurrentSearches ==
  /\ \A k \in 1..Len(store) :
       store[k].vector_embedding \in {<<>>, Encode(store[k].text)}
  /\ \A p \in 1..MaxSearches :
       (req[p].pc = "done" /\ resp[p].status = "ok")
         => LET alone == [k \in 1..Len(store) |->
                            [store[k] EXCEPT !.vector_embedding =
                                               IF @ = <<>> THEN Encode(store[k].text) ELSE @]]
            IN resp[p] = agentResponse(req[p],
                                       rankResults(scoreInMemory(req[p], alone),
                                                   req[p].pq, cfg.minScore))

\* a search has completed with results, after a backfill of two documents,
\* while another search was abandoned in its backfill
C12_Witness ==
  \E p, q \in 1..MaxSearches :
    /\ req[p].pc = "done" /\ resp[p].status = "ok" /\ resp[p].total_results > 0
    /\ Cardinality({i \in 1..Len(req[p].docs) : store[i].vector_embedding = <<>>}) >= 2
    /\ req[q].pc = "abandoned" /\ req[q].answered

\* C13: a brute-force vector search returns the top candidates by cosine
\* similarity among those at or above minScore: every result has a similarity
\* of at least minScore, the results are in descending order of similarity,
\* and a fetched document whose similarity is at least minScore is left out
\* only when maxResults results are returned, each with a similarity at least
\* as high.
C13_TopBySimilarity ==
  (req.pc = "done" /\ resp.status = "ok" /\ req.strategy = "memoryVector")
    => /\ \A j \in 1..Len(resp.results) : GreaterEq(resp.results[j].score, cfg.minScore)
       /\ \A j \in 1..(Len(resp.results) - 1) :
            GreaterEq(resp.results[j].score, resp.results[j + 1].score)
       /\ \A j \in 1..Len(resp.results) :
            \E i \in 1..Len(req.docs) :
              /\ req.docs[i]._id = resp.results[j].id
              /\ resp.results[j].score = Cosines[req.pq.vector, req.docs[i].vector_embedding]
       /\ \A i \in 1..Len(req.docs) :
            (/\ GreaterEq(Cosines[req.pq.vector, req.docs[i].vector_embedding], cfg.minScore)
             /\ \A j \in 1..Len(resp.results) : resp.results[j].id # req.docs[i]._id)
              => /\ Len(resp.results) = cfg.maxResults
                 /\ \A j \in 1..Len(resp.results) :
                      GreaterEq(resp.results[j].score,
                                Cosines[req.pq.vector, req.docs[i].vector_embedding])

\* a brute-force search has returned its one result and has left out a
\* document that was fetched before it, with a similarity of at least minScore
C13_Witness ==
  /\ req.pc = "done" /\ resp.status = "ok" /\ req.strategy = "memoryVector"
  /\ cfg.maxResults = 1 /\ Len(resp.results) = 1
  /\ \E i, k \in 1..Len(req.docs) :
       /\ i < k
       /\ req.docs[k]._id = resp.results[1].id
       /\ GreaterEq(Cosines[req.pq.vector, req.docs[i].vector_embedding], cfg.minScore)

C15_QueryMatchScores ==
  (req.pc = "done" /\ resp.status = "ok" /\ req.strategy = "text" /\ req.query # <<>>)
    => \A i \in 1..Len(req.docs) :
         includes(toLowerCase(req.docs[i].text), req.pq.normalized)
           => /\ GreaterEq(calculateTextScore(req.docs[i], req.pq), Half)
              /\ cfg.minScore = MinScoreDefault
                   => \E j \in 1..Len(resp.results) :
                        /\ resp.results[j].id = req.docs[i]._id
                        /\ \A k \in 1..(j - 1) :
                             \E d \in 1..Len(req.docs) :
                               /\ req.docs[d]._id = resp.results[k].id
                               /\ \/ includes(toLowerCase(req.docs[d].text), req.pq.normalized)
                                  \/ \E w \in 1..Len(req.pq.keywords) :
                                       includes(toLowerCase(req.docs[d].text), req.pq.keywords[w])

\* C16: the keywords of a processed query, the SearchAgent's and
\* search-simple's, are exactly the tokens longer than two characters of the
\* normalized query without its characters that are neither alphanumeric nor
\* white space, split at white space.
C16_KeywordsExact ==
  LET kept(c) == IsLower(c) \/ IsUpper(c) \/ IsDigit(c) \/ IsSpace(c)
      tokens == SelectSeq(split(SelectSeq(toLowerCase(req.query), kept), {" "}),
                          LAMBDA word : Len(word) > 2)
      keywords == IF req.op = "processQuery" THEN resp.value.keywords
                  ELSE resp.value.processed_query.keywords
  IN (req.pc = "returned" /\ req.op \in {"processQuery", "processSearchQuery"})
       => keywords = tokens

\* C17: the snippets extractRelevantSnippets returns for a document and a
\* query, and the snippets of every result of search-simple, are at most 3 and
\* are in non-increasing order of their scores.
C17_SnippetsBounded ==
  LET ordered(snippets) ==
        /\ Len(snippets) <= 3
        /\ \A i \in 1..(Len(snippets) - 1) :
             GreaterEq(snippets[i].score, snippets[i + 1].score)
  IN /\ (req.op = "extractRelevantSnippets" /\ req.pc = "returned") => ordered(resp.value)
     /\ (req.op = "processSearchQuery" /\ req.pc = "returned")
          => \A r \in 1..Len(resp.value.results) : ordered(resp.value.results[r].snippets)

\* three snippets have been returned for a text of four sentences that hold
\* a keyword; the first snippet is the third sentence, with a higher score
\* than the second
C17_Witness ==
  /\ req.op = "extractRelevantSnippets" /\ req.pc = "returned"
  /\ Len(SelectSeq(split(req.result.text, {".", "!", "?"}),
                   LAMBDA s : Greater(sentenceScore(s, processQuery(req.query, <<>>)), Zero))) = 4
  /\ Len(resp.value) = 3
  /\ resp.value[1].text = <<"M","a","c","h","i","n","e"," ","l","e","a","r","n","i","n","g">>
  /\ Greater(resp.value[1].score, resp.value[2].score)
  /\ Greater(resp.value[2].score, resp.value[3].score)

\* C18: the cosine similarity of two vectors of equal length does not depend
\* on their order, and the cosine similarity of a vector that is not all-zero
\* with itself is 1.
C18_SymmetricAndUnit ==
  (req.op = "calculateCosineSimilarity" /\ req.pc = "returned" /\ Len(req.vec1) = Len(req.vec2))
    => /\ resp.value = calculateCosineSimilarity(req.vec2, req.vec1)
       /\ (req.vec1 = req.vec2 /\ \E i \in 1..Len(req.vec1) : req.vec1[i] # 0)
            => resp.value = One

\* C19: the cosine similarity is the number 0, not NaN and not an error, when
\* one of the vectors is all-zero, when one of them is missing and when their
\* lengths differ.
C19_ZeroWithoutDivision ==
  LET allZero(v) == \A i \in 1..Len(v) : v[i] = 0
  IN (/\ req.op = "calculateCosineSimilarity" /\ req.pc = "returned"
      /\ \/ allZero(req.vec1) \/ allZero(req.vec2)
         \/ req.vec1 = <<>> \/ req.vec2 = <<>>
         \/ Len(req.vec1) # Len(req.vec2))
       => resp.value = Zero

\* the similarity of an all-zero vector and a vector of the same length that
\* is not all-zero has been returned
C19_Witness ==
  /\ req.op = "calculateCosineSimilarity" /\ req.pc = "returned"
  /\ req.vec1 = <<0, 0>> /\ req.vec2 = <<1, 2>>
  /\ resp.value = Zero

\* C20: processQuery returns at most one entity of each type, DATE, PERSON and
\* ORGANIZATION, and the one ORGANIZATION entity of the query "Acme Inc" has
\* the whole matched span as its text.
C20_OneEntityPerPattern ==
  (req.op = "processQuery" /\ req.pc = "returned")
    => LET entities == resp.value.entities
           ofType(type) == SelectSeq(entities, LAMBDA e : e.type = type)
       IN /\ \A type \in {"DATE", "PERSON", "ORGANIZATION"} : Len(ofType(type)) <= 1
          /\ req.query = <<"A","c","m","e"," ","I","n","c">>
               => ofType("ORGANIZATION") = <<[text |-> req.query, type |-> "ORGANIZATION"]>>

\* C21: when the store has answered a search, every document it returned has
\* the agent label of the agent filter when one is given, a creation time at
\* or after the lower bound when one is given and at or before the upper
\* bound when one is given; and a bound that is not given excludes nothing:
\* the text search, the brute-force search and search-simple are returned
\* the first documents of the collection, up to the limit of the strategy,
\* that match the query and the bounds that are given.
C21_FiltersRestrict ==
  (req.pc = "done" /\ req.answered /\ (req.pipeline = "agent" => cfg.db = "mongo"))
    => LET f == req.filters
           lower == IF req.pipeline = "simple" THEN f.dateFrom
                    ELSE IF f.dateRange = <<>> THEN <<>> ELSE f.dateRange.start
           upper == IF req.pipeline = "simple" THEN f.dateTo
                    ELSE IF f.dateRange = <<>> THEN <<>> ELSE f.dateRange.end
           passes(d) ==
             /\ f.agent # <<>> => d.agent = f.agent
             /\ lower # <<>> => d.created_at >= lower[1]
             /\ upper # <<>> => d.created_at <= upper[1]
           ids(documents) == [i \in 1..Len(documents) |-> documents[i]._id]
           expected(matches(_), limit) ==
             ids(slice0(SelectSeq(req.seen, LAMBDA d : matches(d) /\ passes(d)), limit))
       IN /\ \A i \in 1..Len(req.docs) : passes(req.docs[i])
          /\ req.strategy = "text"
               => ids(req.docs) = expected(LAMBDA d : matchesTextQuery(d, req.pq), cfg.maxResults)
          /\ req.strategy = "memoryVector"
               => ids(req.docs) = expected(LAMBDA d : TRUE, BruteForceLimit)
          /\ req.pipeline = "simple"
               => ids(req.docs) = expected(LAMBDA d : regexMatch(d.text, req.query)
                                                      \/ regexMatch(d.summary, req.query)
                                                      \/ regexMatch(d.filename, req.query),
                                           SimpleLimit)

\* C22: the ranker returns exactly the candidates whose score is at least
\* minScore, each once and with its score, in descending order of score, and
\* two of them with equal scores in the order in which the candidates were
\* given.
C22_RankerFiltersAndStableSorts ==
  (req.op = "rankResults" /\ req.pc = "returned")
    => LET candidates == req.results
           ranked == resp.value
           kept == {k \in 1..Len(candidates) : GreaterEq(candidates[k].score, cfg.minScore)}
           pos(i) == CHOOSE k \in 1..Len(candidates) : candidates[k]._id = ranked[i].id
       IN /\ Len(ranked) = Cardinality(kept)
          /\ \A i \in 1..Len(ranked) :
               /\ \E k \in kept : candidates[k]._id = ranked[i].id
               /\ ranked[i].score = candidates[pos(i)].score
               /\ ranked[i].agent = candidates[pos(i)].agent
          /\ \A i, j \in 1..Len(ranked) :
               i < j => /\ pos(i) # pos(j)
                        /\ GreaterEq(ranked[i].score, ranked[j].score)
                        /\ ranked[i].score = ranked[j].score => pos(i) < pos(j)

\* C22 witness: of three candidates the first is below the minimum and is
\* dropped, the other two have equal scores and keep their order.
C22_Witness ==
  /\ req.op = "rankResults" /\ req.pc = "returned"
  /\ ~GreaterEq(req.results[1].score, cfg.minScore) /\ ~req.results[1].score.nan
  /\ req.results[2].score = req.results[3].score
  /\ Len(resp.value) = 2
  /\ resp.value[1].id = req.results[2]._id
  /\ resp.value[2].id = req.results[3]._id

\* C23: the intent of a processed query is that of the first of the triggers
\* how, what, when, where (HOW_TO, DEFINITION, TIME, LOCATION) that occurs in
\* the lower-cased query, wherever the triggers stand in it, and INFORMATION
\* when none occurs.
C23_IntentByPriority ==
  (req.op = "processQuery" /\ req.pc = "returned")
    => LET n == resp.value.normalized
           triggers == << <<"h","o","w">>, <<"w","h","a","t">>, <<"w","h","e","n">>, <<"w","h","e","r","e">> >>
           intents == <<"HOW_TO", "DEFINITION", "TIME", "LOCATION">>
           occurs(t) == \E i \in 1..Len(n) : /\ i + Len(t) - 1 <= Len(n)
                                             /\ SubSeq(n, i, i + Len(t) - 1) = t
           found == {k \in 1..4 : occurs(triggers[k])}
       IN /\ n = toLowerCase(req.query)
          /\ found = {} => resp.value.intent = "INFORMATION"
          /\ found # {} => resp.value.intent = intents[Min(found)]

\* C23 witness: the query "where How" holds the trigger of LOCATION before
\* that of HOW_TO, and its intent is HOW_TO.
C23_Witness ==
  /\ req.op = "processQuery" /\ req.pc = "returned"
  /\ req.query = <<"w","h","e","r","e"," ","H","o","w">>
  /\ resp.value.intent = "HOW_TO"

\* C24: once the vector search has chosen its variant, it is the index search
\* exactly when the collection advertises the vector index, and otherwise the
\* brute-force search; the index search has sent exactly one query, with
\* numCandidates ten times maxResults, limit maxResults and the filters of
\* the request, and the other searches none; and the candidates of the index
\* search are at most limit documents that have an embedding, each with the
\* score of the index for the query vector and that embedding.
C24_DelegatedIndexSearch ==
  /\ req.strategy = "mongoVector" <=> (req.pc \in {"aggregate", "findAll", "backfill", "done"}
                                        /\ req.strategy \in {"mongoVector", "memoryVector"}
                                        /\ vectorIndex)
  /\ req.strategy = "memoryVector" => ~vectorIndex
  /\ IF req.strategy = "mongoVector"
     THEN req.indexQueries = <<[numCandidates |-> 10 * cfg.maxResults,
                                limit |-> cfg.maxResults,
                                agent |-> req.filters.agent,
                                dateRange |-> req.filters.dateRange]>>
     ELSE req.indexQueries = <<>>
  /\ (req.strategy = "mongoVector" /\ req.pc = "done" /\ req.answered)
       => /\ Len(req.docs) <= cfg.maxResults
          /\ \A i \in 1..Len(req.docs) :
               \E k \in 1..Len(req.seen) :
                 /\ req.seen[k]._id = req.docs[i]._id
                 /\ req.seen[k].vector_embedding # <<>>
                 /\ req.docs[i].score
                      = IndexScores[req.pq.vector, req.seen[k].vector_embedding]

\* C24 witness: an index search with a date filter has ended with a candidate.
C24_Witness ==
  /\ req.strategy = "mongoVector" /\ req.pc = "done" /\ req.answered
  /\ vectorIndex
  /\ req.filters.dateRange # <<>>
  /\ Len(req.indexQueries) = 1
  /\ Len(req.docs) >= 1

\* C25: the snippets of a document are its sentences, the fragments between
\* runs of '.', '!' and '?' that are not blank: the three with the highest
\* scores, or all of them when there are fewer than three, each as its
\* trimmed text with its score, 0.5 for the whole query plus 0.1 for each
\* keyword it holds; a document without text has no snippet.
C25_TopThreeSentences ==
  (req.op = "extractRelevantSnippets" /\ req.pc = "returned")
    => LET pq == processQuery(req.query, <<>>)
           sentences == SelectSeq(split(req.result.text, {".", "!", "?"}),
                                  LAMBDA s : Len(trim(s)) > 0)
           snippetOf(k) == [text |-> trim(sentences[k]), score |-> sentenceScore(sentences[k], pq)]
           shown == {k \in 1..Len(sentences) :
                       \E i \in 1..Len(resp.value) : resp.value[i] = snippetOf(k)}
       IN /\ Len(resp.value) = Min({MaxSnippets, Len(sentences)})
          /\ \A i \in 1..Len(resp.value) : \E k \in 1..Len(sentences) : resp.value[i] = snippetOf(k)
          /\ \A k \in 1..Len(sentences) : \A i \in 1..Len(resp.value) :
               k \notin shown => GreaterEq(resp.value[i].score, snippetOf(k).score)
          /\ req.result.text = <<>> => resp.value = <<>>

\* C26: the summary of a response that has results starts with a line that
\* states the number of results, and has exactly one line for each agent
\* label that occurs in the results, which states the number of results
\* with that label, and no other line of that form; the number of results is
\* total_results.
C26_SummaryCountsByAgent ==
  (req.pc = "done" /\ resp.status = "ok" /\ Len(resp.results) > 0)
    => LET lines == SelectSeq(split(resp.summary, {"\n"}), LAMBDA l : l # <<>>)
           agents == {resp.results[i].agent : i \in 1..Len(resp.results)}
           count(a) == Cardinality({i \in 1..Len(resp.results) : resp.results[i].agent = a})
           agentLine(a) == <<"-"," ">> \o a \o <<":"," ">> \o toString(count(a))
                           \o <<" ","r","e","s","u","l","t","s">>
           isAgentLine(l) == Len(l) >= 2 /\ SubSeq(l, 1, 2) = <<"-"," ">>
           header == <<"F","o","u","n","d"," ">> \o toString(resp.total_results)
                     \o <<" ","r","e","s","u","l","t","s"," ","f","o","r"," ","q","u","e","r","y",":"," ","\"">>
                     \o resp.query \o <<"\"">>
       IN /\ resp.total_results = Len(resp.results)
          /\ lines[1] = header
          /\ \A a \in agents : Cardinality({k \in 1..Len(lines) : lines[k] = agentLine(a)}) = 1
          /\ Cardinality({k \in 1..Len(lines) : isAgentLine(lines[k])}) = Cardinality(agents)

\* C27: the summary of a response that has results ends with the preview of
\* the first result: a line that gives its score as a rounded percentage,
\* followed by the text of its snippet of the highest score, or by a
\* placeholder text when it has no snippet.
C27_SummaryPreview ==
  (req.pc = "done" /\ resp.status = "ok" /\ Len(resp.results) > 0)
    => LET topResult == resp.results[1]
           annotation == <<"\n">> \o <<"T","o","p"," ","r","e","s","u","l","t"," ","(">>
                         \o toString(MathRound(numMul(topResult.score, number(100))))
                         \o <<"%"," ","m","a","t","c","h",")",":">> \o <<"\n">>
           best == {i \in 1..Len(topResult.snippets) :
                      \A j \in 1..Len(topResult.snippets) :
                        GreaterEq(topResult.snippets[i].score, topResult.snippets[j].score)}
           shows(body) == IF Len(topResult.snippets) > 0
                          THEN \E i \in best : body = topResult.snippets[i].text
                          ELSE body # <<>>
       IN \E k \in 1..Len(resp.summary) :
            /\ k + Len(annotation) - 1 <= Len(resp.summary)
            /\ SubSeq(resp.summary, k, k + Len(annotation) - 1) = annotation
            /\ shows(SubSeq(resp.summary, k + Len(annotation), Len(resp.summary)))

\* C28: the search_type of a response of the SearchAgent is "vector" exactly
\* when the vector search was run for the request and "text" exactly when
\* the text search was run.
C28_SearchTypeNamesStrategy ==
  (req.pipeline = "agent" /\ req.pc = "done" /\ resp.status = "ok")
    => /\ resp.search_type = "vector" <=> req.strategy \in {"mongoVector", "memoryVector"}
       /\ resp.search_type = "text" <=> req.strategy = "text"

\* C29: an invocation of the search-simple handler with GET or POST and a
\* query that is not empty returns at most once, with status 200; the
\* response is the result of the search, which has been fulfilled, or, once
\* the timer of the search has fired, the timeout response with no results,
\* and it is the result of the search when the timer has not fired; once
\* the handler has returned, the timer of the function is cleared, no timer
\* callback has thrown, and no later step changes the response.
C29_HandlerRacesSearchAndTimers ==
  /\ [](   (req.httpMethod \in {"GET", "POST"} /\ req.query # <<>>)
        => /\ req.responses <= 1
           /\ req.uncaught = "none"
           /\ req.pc = "returned"
                => /\ req.responses = 1
                   /\ resp.statusCode = 200
                   /\ req.functionTimer = "cleared"
                   /\ resp.body.search_type \in {"mongodb", "mock", "timeout"}
                   /\ resp.body.search_type \in {"mongodb", "mock"}
                        => req.searchPromise = "fulfilled"
                   /\ resp.body.search_type = "timeout"
                        => /\ req.searchTimer = "fired"
                           /\ resp.body.results = <<>>
                           /\ resp.body.total_results = 0
                   /\ req.searchTimer = "set"
                        => resp.body.search_type \in {"mongodb", "mock"})
  /\ [][req.pc = "returned" => resp' = resp]_vars

\* C30: whatever the interleaving of the calls of connectToMongoDB, at most
\* one mongoose.connect is in flight, connectionAttemptInProgress is true
\* exactly while one is in flight, and a call that has returned has resolved
\* with a connection whose readyState was 1 or with the mock connection,
\* whose readyState is 0.
C30_ConnectMutualExclusion ==
  LET inFlight == {p \in 1..MaxCallers : req[p].attempt = "inflight"}
  IN /\ Cardinality(inFlight) <= 1
     /\ cfg.connectionAttemptInProgress <=> inFlight # {}
     /\ \A p \in 1..MaxCallers :
          req[p].pc = "done"
            => /\ resp[p].status = "resolved"
               /\ \/ resp[p].value = "connection" /\ resp[p].readyState = 1
                  \/ resp[p].value = "mock" /\ resp[p].readyState = 0
====
